---- MODULE Spec2Model ----
(***************************************************************************)
(* Offline-first pet store with push/pull synchronisation against a remote *)
(* row store (src/database.py) and the timer-driven auto sync of the       *)
(* application controller (src/app.py).                                    *)
(*                                                                         *)
(* Tables are sets of rows; the PRIMARY KEY and UNIQUE constraints are     *)
(* enforced by the SQL helpers, not by the representation.  Timestamps are *)
(* the strings datetime.isoformat() produces and are compared as strings,  *)
(* as the code compares them.  Every remote call of a handler has an       *)
(* outcome chosen by the environment (the remote may fail at any call).    *)
(***************************************************************************)
EXTENDS Integers, Sequences, FiniteSets, TLC

\* ------------------------------------------------------------------ bounds
MaxUsers == 1
MaxPets == 2
MaxClock == 2
MaxPetChanges == 1
MaxDeviceWrites == 1
MaxBatch == 2
MaxAccounts == 2

UserIds == 1..MaxUsers
PetIds == 1..MaxPets
Ticks == 0..MaxClock
Usernames == {"ann"}
Names == {"Rex", "Tom"}
\* Optional[str] ids: None is 0
NoId == 0

VARIABLES
    now,            \* the wall clock datetime.utcnow() reads, in ticks of half a second
    configured,     \* Config.is_remote_configured()
    is_online,      \* DatabaseManager._is_online
    remote_conn,    \* DatabaseManager.remote_conn is not None
    local_users,    \* local table users
    local_pets,     \* local table pets
    sync_log,       \* local table sync_log, in insertion order
    remote_users,   \* remote table users
    remote_pets,    \* remote table pets
    device_writes,  \* number of rows another device has written to the remote
    session_file,   \* the user id in Config.SESSION_FILE, NoId when the file is absent
    current_user,   \* AuthManager._current_user["id"], NoId when logged out
    view,           \* PetManagerApp._current_view: "login", "dashboard" or "closed"
    sync_timer_id,  \* PetManagerApp._sync_timer_id, NoId for None
    timers          \* ids of the pending Tk after() callbacks

dbvars == <<is_online, remote_conn, local_users, local_pets, sync_log,
            remote_users, remote_pets>>
appvars == <<session_file, current_user, view, sync_timer_id, timers>>
vars == <<now, configured, is_online, remote_conn, local_users, local_pets,
          sync_log, remote_users, remote_pets, device_writes, session_file,
          current_user, view, sync_timer_id, timers>>

\* --------------------------------------------------------------- timestamps
\* Characters are their code points: '.' is 46, '0'..'9' are 48..57.
Dot == 46
Digit(d) == 48 + d

\* datetime.isoformat(): the seconds field has a fixed width, and the
\* fractional part is omitted when the microsecond is 0.
IsoFormat(t) ==
    <<Digit((t \div 2) \div 10), Digit((t \div 2) % 10)>>
        \o (IF t % 2 = 0 THEN <<>> ELSE <<Dot, Digit(5)>>)

\* _get_timestamp
GetTimestamp == IsoFormat(now)

\* datetime.fromisoformat, the inverse the properties use to read a stored time
ParseIso(s) ==
    2 * (10 * (s[1] - 48) + (s[2] - 48)) + (IF Len(s) > 2 THEN 1 ELSE 0)

MinOf(a, b) == IF a < b THEN a ELSE b

\* Python's str < str: the first differing character decides, a proper prefix is smaller
StrLess(a, b) ==
    \/ \E i \in 1..MinOf(Len(a), Len(b)) :
          /\ \A j \in 1..(i - 1) : a[j] = b[j]
          /\ a[i] < b[i]
    \/ /\ Len(a) < Len(b)
       /\ \A j \in 1..Len(a) : a[j] = b[j]

\* ------------------------------------------------------------- SQL helpers
Ids(table) == {r.id : r \in table}
HasRow(table, id) == \E r \in table : r.id = id
\* SELECT ... WHERE id = ?  (fetchone)
RowOf(table, id) == CHOOSE r \in table : r.id = id

\* INSERT OR REPLACE INTO pets on a table without the PRIMARY KEY: the row is added
ReplacePetKeepOld(table, row) == table \cup {row}

\* INSERT OR REPLACE INTO pets: the row with the same PRIMARY KEY is deleted first
ReplacePet(table, row) == {r \in table : r.id # row.id} \cup {row}

\* INSERT OR REPLACE INTO users: rows conflicting on the PRIMARY KEY or on the
\* UNIQUE username are deleted first
ReplaceUser(table, row) ==
    {r \in table : r.id # row.id /\ r.username # row.username} \cup {row}

\* UPDATE t SET sync_status = v  (the WHERE clause left out)
SetStatusAll(table, id, v) == {[r EXCEPT !.sync_status = v] : r \in table}

\* UPDATE t SET sync_status = v WHERE id = ?
SetStatus(table, id, v) ==
    {IF r.id = id THEN [r EXCEPT !.sync_status = v] ELSE r : r \in table}

\* the stored state of a DatabaseManager, threaded through its methods
Store ==
    [is_online |-> is_online, remote_conn |-> remote_conn,
     local_users |-> local_users, local_pets |-> local_pets,
     sync_log |-> sync_log,
     remote_users |-> remote_users, remote_pets |-> remote_pets]

Out(s, ret, ok) == [s |-> s, ret |-> ret, ok |-> ok]

\* the element of a one-element set; in Only({e(v) : v \in {x}}) the name v
\* stands for the value of x, computed once, as a Python local holds a result
Only(S) == CHOOSE y \in S : TRUE

\* ------------------------------------------------------------- connectivity
ConnectOutcomes == {"ok", "connect_failed", "tables_failed"}

\* _try_connect_remote without the is_remote_configured test
TryConnectRemoteAlways(s, c) ==
    IF c = "ok"
    THEN Out([s EXCEPT !.remote_conn = TRUE, !.is_online = TRUE], TRUE, TRUE)
    ELSE IF c = "tables_failed"
    THEN Out([s EXCEPT !.remote_conn = TRUE, !.is_online = FALSE], FALSE, FALSE)
    ELSE Out([s EXCEPT !.is_online = FALSE], FALSE, FALSE)

\* _try_connect_remote; c is what the connection attempt does
TryConnectRemote(s, c) ==
    IF ~configured
    THEN Out([s EXCEPT !.is_online = FALSE], FALSE, TRUE)
    ELSE IF c = "ok"
    THEN Out([s EXCEPT !.remote_conn = TRUE, !.is_online = TRUE], TRUE, TRUE)
    ELSE IF c = "tables_failed"
    THEN Out([s EXCEPT !.remote_conn = TRUE, !.is_online = FALSE], FALSE, FALSE)
    ELSE Out([s EXCEPT !.is_online = FALSE], FALSE, FALSE)

\* check_connection answering from the flag, without a new connection attempt
CheckConnectionOpFlag(s, c) == Out(s, s.is_online, TRUE)

\* check_connection
CheckConnectionOp(s, c) == TryConnectRemote(s, c)

\* _log_change; the row's own id and its timestamp, columns nothing reads, are
\* not kept
LogChange(s, table, record_id, operation) ==
    [s EXCEPT !.sync_log = Append(@,
        [table_name |-> table, record_id |-> record_id, operation |-> operation,
         synced |-> 0])]

\* ------------------------------------------------------------------- push
\* the remote row _sync_user_to_remote writes: the selected columns and 'synced'
RemoteUserRow(u) == [u EXCEPT !.sync_status = "synced"]

\* _sync_user_to_remote with the local UPDATE moved out of the try block
SyncUserToRemoteMarkAlways(s, user_id, ok) ==
    IF ~s.is_online \/ ~s.remote_conn THEN Out(s, FALSE, TRUE)
    ELSE IF ~HasRow(s.local_users, user_id) THEN Out(s, FALSE, TRUE)
    ELSE IF ~ok THEN Out([s EXCEPT !.local_users = SetStatus(@, user_id, "synced")],
                         FALSE, FALSE)
    ELSE Out([s EXCEPT
                !.remote_users = ReplaceUser(@, RemoteUserRow(RowOf(s.local_users, user_id))),
                !.local_users = SetStatus(@, user_id, "synced")],
             TRUE, TRUE)

\* _sync_user_to_remote; ok is whether the remote write succeeds
SyncUserToRemote(s, user_id, ok) ==
    IF ~s.is_online \/ ~s.remote_conn THEN Out(s, FALSE, TRUE)
    ELSE IF ~HasRow(s.local_users, user_id) THEN Out(s, FALSE, TRUE)
    ELSE IF ~ok THEN Out(s, FALSE, FALSE)
    ELSE Out([s EXCEPT
                !.remote_users = ReplaceUser(@, RemoteUserRow(RowOf(s.local_users, user_id))),
                !.local_users = SetStatus(@, user_id, "synced")],
             TRUE, TRUE)

\* the remote row as SELECT * would write it: the local sync_status is copied
RemotePetRowAsIs(p) == p

\* the remote row _sync_pet_to_remote writes: the selected columns and 'synced'
RemotePetRow(p) == [p EXCEPT !.sync_status = "synced"]

\* _sync_pet_to_remote without the local UPDATE that marks the row 'synced'
SyncPetToRemoteNoMark(s, pet_id, ok) ==
    IF ~s.is_online \/ ~s.remote_conn THEN Out(s, FALSE, TRUE)
    ELSE IF ~HasRow(s.local_pets, pet_id) THEN Out(s, FALSE, TRUE)
    ELSE IF ~ok THEN Out(s, FALSE, FALSE)
    ELSE Out([s EXCEPT
                !.remote_pets = ReplacePet(@, [RowOf(s.local_pets, pet_id)
                                                 EXCEPT !.sync_status = "synced"])],
             TRUE, TRUE)

\* _sync_pet_to_remote with the local UPDATE moved out of the try block: the row
\* is marked 'synced' whether or not the remote write succeeded
SyncPetToRemoteMarkAlways(s, pet_id, ok) ==
    IF ~s.is_online \/ ~s.remote_conn THEN Out(s, FALSE, TRUE)
    ELSE IF ~HasRow(s.local_pets, pet_id) THEN Out(s, FALSE, TRUE)
    ELSE IF ~ok THEN Out([s EXCEPT !.local_pets = SetStatus(@, pet_id, "synced")],
                         FALSE, FALSE)
    ELSE Out([s EXCEPT
                !.remote_pets = ReplacePet(@, RemotePetRow(RowOf(s.local_pets, pet_id))),
                !.local_pets = SetStatus(@, pet_id, "synced")],
             TRUE, TRUE)

\* _sync_pet_to_remote that also flags the record's journal entries as synced
SyncPetToRemoteMarksJournal(s, pet_id, ok) ==
    IF ~s.is_online \/ ~s.remote_conn THEN Out(s, FALSE, TRUE)
    ELSE IF ~HasRow(s.local_pets, pet_id) THEN Out(s, FALSE, TRUE)
    ELSE IF ~ok THEN Out(s, FALSE, FALSE)
    ELSE Out([s EXCEPT
                !.remote_pets = ReplacePet(@, RemotePetRow(RowOf(s.local_pets, pet_id))),
                !.local_pets = SetStatus(@, pet_id, "synced"),
                !.sync_log = [i \in DOMAIN @ |->
                                 IF @[i].table_name = "pets" /\ @[i].record_id = pet_id
                                 THEN [@[i] EXCEPT !.synced = 1] ELSE @[i]]],
             TRUE, TRUE)

\* _sync_pet_to_remote with an except branch that also clears the flag
SyncPetToRemoteDropsFlag(s, pet_id, ok) ==
    IF ~s.is_online \/ ~s.remote_conn THEN Out(s, FALSE, TRUE)
    ELSE IF ~HasRow(s.local_pets, pet_id) THEN Out(s, FALSE, TRUE)
    ELSE IF ~ok THEN Out([s EXCEPT !.is_online = FALSE], FALSE, FALSE)
    ELSE Out([s EXCEPT
                !.remote_pets = ReplacePet(@, RemotePetRow(RowOf(s.local_pets, pet_id))),
                !.local_pets = SetStatus(@, pet_id, "synced")],
             TRUE, TRUE)

\* _sync_pet_to_remote; ok is whether the remote write succeeds
SyncPetToRemote(s, pet_id, ok) ==
    IF ~s.is_online \/ ~s.remote_conn THEN Out(s, FALSE, TRUE)
    ELSE IF ~HasRow(s.local_pets, pet_id) THEN Out(s, FALSE, TRUE)
    ELSE IF ~ok THEN Out(s, FALSE, FALSE)
    ELSE Out([s EXCEPT
                !.remote_pets = ReplacePet(@, RemotePetRow(RowOf(s.local_pets, pet_id))),
                !.local_pets = SetStatus(@, pet_id, "synced")],
             TRUE, TRUE)

\* SELECT id FROM t WHERE sync_status = 'pending'
PendingIds(table) == {r.id : r \in {x \in table : x.sync_status = "pending"}}

\* the loop over pending users: acc is [s, n, ok]; fails are the ids whose write fails
RECURSIVE PushUsers(_, _, _)
PushUsers(acc, todo, fails) ==
    IF todo = {} THEN acc
    ELSE LET id == CHOOSE x \in todo : \A y \in todo : x <= y
         IN Only({PushUsers([s |-> o.s,
                             n |-> IF o.ret THEN acc.n + 1 ELSE acc.n,
                             ok |-> acc.ok /\ o.ok],
                            todo \ {id}, fails) :
                     o \in {SyncUserToRemote(acc.s, id, id \notin fails)}})

\* the loop over pending pets, leaving the loop at the first write that fails
RECURSIVE PushPetsStopAtFailure(_, _, _)
PushPetsStopAtFailure(acc, todo, fails) ==
    IF todo = {} THEN acc
    ELSE LET id == CHOOSE x \in todo : \A y \in todo : x <= y
         IN Only({IF o.ret
                  THEN PushPetsStopAtFailure([s |-> o.s, n |-> acc.n + 1,
                                              ok |-> acc.ok /\ o.ok],
                                             todo \ {id}, fails)
                  ELSE [s |-> o.s, n |-> acc.n, ok |-> FALSE] :
                     o \in {SyncPetToRemote(acc.s, id, id \notin fails)}})

\* the loop over pending pets
RECURSIVE PushPets(_, _, _)
PushPets(acc, todo, fails) ==
    IF todo = {} THEN acc
    ELSE LET id == CHOOSE x \in todo : \A y \in todo : x <= y
         IN Only({PushPets([s |-> o.s,
                            n |-> IF o.ret THEN acc.n + 1 ELSE acc.n,
                            ok |-> acc.ok /\ o.ok],
                           todo \ {id}, fails) :
                     o \in {SyncPetToRemote(acc.s, id, id \notin fails)}})

\* sync_all_pending; c is the outcome of its connectivity check, failU and
\* failP the pending rows whose remote write fails
SyncAllPending(s, c, failU, failP) ==
    Only({
        IF ~chk.ret
        THEN Out(chk.s, [users |-> 0, pets |-> 0, status |-> "offline"], chk.ok)
        ELSE Only({
            Only({
                Out(ps.s, [users |-> us.n, pets |-> ps.n, status |-> "online"],
                    us.ok /\ ps.ok) :
                ps \in {PushPets([s |-> us.s, n |-> 0, ok |-> TRUE],
                                 PendingIds(us.s.local_pets), failP)}}) :
            us \in {PushUsers([s |-> chk.s, n |-> 0, ok |-> TRUE],
                              PendingIds(chk.s.local_users), failU)}}) :
        chk \in {CheckConnectionOp(s, c)}})

\* ------------------------------------------------------------------- pull
\* the pull condition with <= for <: equal timestamps would overwrite the local copy
PullOverwritesLe(table, pet) ==
    \/ ~HasRow(table, pet.id)
    \/ ~StrLess(pet.updated_at, RowOf(table, pet.id).updated_at)

\* not local_pet or local_pet[0] < remote_updated
PullOverwrites(table, pet) ==
    \/ ~HasRow(table, pet.id)
    \/ StrLess(RowOf(table, pet.id).updated_at, pet.updated_at)

\* the pulled row without the is_deleted column: the column default 0 is stored
PulledRowNoDeleted(pet) == [pet EXCEPT !.is_deleted = 0, !.sync_status = "synced"]

\* the local row the pull writes: the first eleven values of the fetched row fill
\* the eleven placeholders, the row's own sync_status is left over, and
\* sync_status is the literal 'synced'
PulledRow(pet) == [pet EXCEPT !.sync_status = "synced"]

\* the loop over the fetched remote rows: acc is [t, n]
RECURSIVE PullLoop(_, _)
PullLoop(acc, todo) ==
    IF todo = {} THEN acc
    ELSE LET pet == CHOOSE x \in todo : \A y \in todo : x.id <= y.id
         IN PullLoop(IF PullOverwrites(acc.t, pet)
                     THEN [t |-> ReplacePet(acc.t, PulledRow(pet)), n |-> acc.n + 1]
                     ELSE acc,
                     todo \ {pet})

\* pull_from_remote guarded by the connection object alone, not by the flag
PullFromRemoteNoFlag(s, user_id, ok) ==
    IF ~s.remote_conn
    THEN Out(s, [pets |-> 0, status |-> "offline"], TRUE)
    ELSE IF ~ok THEN Out(s, [pets |-> 0, status |-> "online"], FALSE)
    ELSE LET r == PullLoop([t |-> s.local_pets, n |-> 0],
                           {p \in s.remote_pets : p.user_id = user_id})
         IN Out([s EXCEPT !.local_pets = r.t],
                [pets |-> r.n, status |-> "online"], TRUE)

\* pull_from_remote with the failure raised by the statement after the loop:
\* the rows the loop wrote stay written and counted
PullFromRemoteFailsLate(s, user_id, ok) ==
    IF ~s.is_online \/ ~s.remote_conn
    THEN Out(s, [pets |-> 0, status |-> "offline"], TRUE)
    ELSE LET r == PullLoop([t |-> s.local_pets, n |-> 0],
                           {p \in s.remote_pets : p.user_id = user_id})
         IN Out([s EXCEPT !.local_pets = r.t],
                [pets |-> r.n, status |-> "online"], ok)

\* pull_from_remote with the WHERE user_id = ? left out of the SELECT
PullFromRemoteAllOwners(s, user_id, ok) ==
    IF ~s.is_online \/ ~s.remote_conn
    THEN Out(s, [pets |-> 0, status |-> "offline"], TRUE)
    ELSE IF ~ok THEN Out(s, [pets |-> 0, status |-> "online"], FALSE)
    ELSE LET r == PullLoop([t |-> s.local_pets, n |-> 0], s.remote_pets)
         IN Out([s EXCEPT !.local_pets = r.t],
                [pets |-> r.n, status |-> "online"], TRUE)

\* pull_from_remote; ok is whether the remote fetch succeeds
PullFromRemote(s, user_id, ok) ==
    IF ~s.is_online \/ ~s.remote_conn
    THEN Out(s, [pets |-> 0, status |-> "offline"], TRUE)
    ELSE IF ~ok THEN Out(s, [pets |-> 0, status |-> "online"], FALSE)
    ELSE LET r == PullLoop([t |-> s.local_pets, n |-> 0],
                           {p \in s.remote_pets : p.user_id = user_id})
         IN Out([s EXCEPT !.local_pets = r.t],
                [pets |-> r.n, status |-> "online"], TRUE)

\* full_sync
FullSync(s, user_id, c, failU, failP, fetch_ok) ==
    LET push == SyncAllPending(s, c, failU, failP)
        pull == PullFromRemote(push.s, user_id, fetch_ok)
    IN Out(pull.s,
           [pushed |-> push.ret, pulled |-> pull.ret, is_online |-> pull.s.is_online],
           push.ok /\ pull.ok)

\* ---------------------------------------------------------------- readers
\* Optional[Dict]: None is the row whose id is NoId
NoRow == [id |-> NoId]

\* get_pet_by_id
GetPetById(table, pet_id) ==
    IF \E r \in table : r.id = pet_id /\ r.is_deleted = 0
    THEN CHOOSE r \in table : r.id = pet_id /\ r.is_deleted = 0
    ELSE NoRow

\* get_pets_by_user, as the set of the rows it lists (ORDER BY name only
\* arranges them)
GetPetsByUser(table, user_id) ==
    {r \in table : r.user_id = user_id /\ r.is_deleted = 0}

\* get_user_by_username
GetUserByUsername(table, username) ==
    IF \E r \in table : r.username = username /\ r.is_deleted = 0
    THEN CHOOSE r \in table : r.username = username /\ r.is_deleted = 0
    ELSE NoRow

\* get_user_by_id
GetUserById(table, user_id) ==
    IF \E r \in table : r.id = user_id /\ r.is_deleted = 0
    THEN CHOOSE r \in table : r.id = user_id /\ r.is_deleted = 0
    ELSE NoRow

\* get_sync_status counting only the rows the readers list (is_deleted = 0)
GetSyncStatusLive(s) ==
    LET pu == Cardinality({r \in s.local_users :
                              r.sync_status = "pending" /\ r.is_deleted = 0})
        pp == Cardinality({r \in s.local_pets :
                              r.sync_status = "pending" /\ r.is_deleted = 0})
    IN [is_online |-> s.is_online, pending_users |-> pu, pending_pets |-> pp,
        total_pending |-> pu + pp]

\* get_sync_status
GetSyncStatus(s) ==
    LET pu == Cardinality({r \in s.local_users : r.sync_status = "pending"})
        pp == Cardinality({r \in s.local_pets : r.sync_status = "pending"})
    IN [is_online |-> s.is_online, pending_users |-> pu, pending_pets |-> pp,
        total_pending |-> pu + pp]

\* -------------------------------------------------------------- mutations
\* create_user on a users table without the UNIQUE constraint on username
CreateUserOpNoUnique(s, user_id, username, ok) ==
    IF \E r \in s.local_users : r.id = user_id
    THEN Out(s, NoId, TRUE)
    ELSE LET row == [id |-> user_id, username |-> username, password_hash |-> "hash",
                     created_at |-> GetTimestamp, updated_at |-> GetTimestamp,
                     is_deleted |-> 0, sync_status |-> "pending"]
             s1 == [s EXCEPT !.local_users = @ \cup {row}]
             s2 == LogChange(s1, "users", user_id, "INSERT")
             o == IF s2.is_online THEN SyncUserToRemote(s2, user_id, ok)
                  ELSE Out(s2, FALSE, TRUE)
         IN Out(o.s, user_id, o.ok)

\* create_user; user_id is the generated uuid, ok the outcome of the remote write
CreateUserOp(s, user_id, username, ok) ==
    IF \E r \in s.local_users : r.id = user_id \/ r.username = username
    THEN Out(s, NoId, TRUE)
    ELSE LET row == [id |-> user_id, username |-> username, password_hash |-> "hash",
                     created_at |-> GetTimestamp, updated_at |-> GetTimestamp,
                     is_deleted |-> 0, sync_status |-> "pending"]
             s1 == [s EXCEPT !.local_users = @ \cup {row}]
             s2 == LogChange(s1, "users", user_id, "INSERT")
             o == IF s2.is_online THEN SyncUserToRemote(s2, user_id, ok)
                  ELSE Out(s2, FALSE, TRUE)
         IN Out(o.s, user_id, o.ok)

\* the inserted row with sync_status left to the column default 'synced'
NewPetRowDefaultStatus(pet_id, user_id, name) ==
    [id |-> pet_id, user_id |-> user_id, name |-> name, species |-> "cat",
     breed |-> "", age |-> 0, weight |-> 0, notes |-> "",
     created_at |-> GetTimestamp, updated_at |-> GetTimestamp,
     is_deleted |-> 0, sync_status |-> "synced"]

\* the row create_pet inserts
NewPetRow(pet_id, user_id, name) ==
    [id |-> pet_id, user_id |-> user_id, name |-> name, species |-> "cat",
     breed |-> "", age |-> 0, weight |-> 0, notes |-> "",
     created_at |-> GetTimestamp, updated_at |-> GetTimestamp,
     is_deleted |-> 0, sync_status |-> "pending"]

\* create_pet reporting None when the immediate push did not get through
CreatePetOpNeedsPush(s, pet_id, user_id, name, ok) ==
    IF HasRow(s.local_pets, pet_id)
    THEN Out(s, NoId, TRUE)
    ELSE LET s1 == [s EXCEPT !.local_pets = @ \cup {NewPetRow(pet_id, user_id, name)}]
             s2 == LogChange(s1, "pets", pet_id, "INSERT")
             o == IF s2.is_online THEN SyncPetToRemote(s2, pet_id, ok)
                  ELSE Out(s2, FALSE, TRUE)
         IN Out(o.s, IF o.ok THEN pet_id ELSE NoId, o.ok)

\* create_pet; pet_id is the generated uuid
CreatePetOp(s, pet_id, user_id, name, ok) ==
    IF HasRow(s.local_pets, pet_id)
    THEN Out(s, NoId, TRUE)
    ELSE LET s1 == [s EXCEPT !.local_pets = @ \cup {NewPetRow(pet_id, user_id, name)}]
             s2 == LogChange(s1, "pets", pet_id, "INSERT")
             o == IF s2.is_online THEN SyncPetToRemote(s2, pet_id, ok)
                  ELSE Out(s2, FALSE, TRUE)
         IN Out(o.s, pet_id, o.ok)

\* allowed_fields of update_pet
AllowedFields == {"name", "species", "breed", "age", "weight", "notes"}

\* UPDATE pets SET <updates> WHERE id = ?
ApplyUpdates(r, updates) ==
    LET V(f) == IF f \in DOMAIN updates THEN updates[f] ELSE r[f]
    IN [r EXCEPT !.name = V("name"), !.species = V("species"), !.breed = V("breed"),
                 !.age = V("age"), !.weight = V("weight"), !.notes = V("notes"),
                 !.updated_at = V("updated_at"), !.sync_status = V("sync_status")]

\* UPDATE pets SET k = ? for every key that is a column of the table
ApplyAnyColumn(r, updates) ==
    [f \in DOMAIN r |-> IF f \in DOMAIN updates THEN updates[f] ELSE r[f]]

\* update_pet without the allowed_fields filter: every keyword is written
UpdatePetOpAnyColumn(s, pet_id, kwargs, ok) ==
    IF DOMAIN kwargs = {} THEN Out(s, FALSE, TRUE)
    ELSE LET updates == [k \in DOMAIN kwargs \cup {"updated_at", "sync_status"} |->
                            IF k = "updated_at" THEN GetTimestamp
                            ELSE IF k = "sync_status" THEN "pending"
                            ELSE kwargs[k]]
             s1 == [s EXCEPT !.local_pets =
                        {IF r.id = pet_id THEN ApplyAnyColumn(r, updates) ELSE r : r \in @}]
             s2 == LogChange(s1, "pets", pet_id, "UPDATE")
             o == IF s2.is_online THEN SyncPetToRemote(s2, pet_id, ok)
                  ELSE Out(s2, FALSE, TRUE)
         IN Out(o.s, TRUE, o.ok)

\* update_pet without the immediate push
UpdatePetOpNoPush(s, pet_id, kwargs, ok) ==
    LET allowed == DOMAIN kwargs \cap AllowedFields IN
    IF allowed = {} THEN Out(s, FALSE, TRUE)
    ELSE LET updates == [k \in allowed \cup {"updated_at", "sync_status"} |->
                            IF k = "updated_at" THEN GetTimestamp
                            ELSE IF k = "sync_status" THEN "pending"
                            ELSE kwargs[k]]
             s1 == [s EXCEPT !.local_pets =
                        {IF r.id = pet_id THEN ApplyUpdates(r, updates) ELSE r : r \in @}]
         IN Out(LogChange(s1, "pets", pet_id, "UPDATE"), TRUE, TRUE)

\* update_pet
UpdatePetOp(s, pet_id, kwargs, ok) ==
    LET allowed == DOMAIN kwargs \cap AllowedFields IN
    IF allowed = {} THEN Out(s, FALSE, TRUE)
    ELSE LET updates == [k \in allowed \cup {"updated_at", "sync_status"} |->
                            IF k = "updated_at" THEN GetTimestamp
                            ELSE IF k = "sync_status" THEN "pending"
                            ELSE kwargs[k]]
             s1 == [s EXCEPT !.local_pets =
                        {IF r.id = pet_id THEN ApplyUpdates(r, updates) ELSE r : r \in @}]
             s2 == LogChange(s1, "pets", pet_id, "UPDATE")
             o == IF s2.is_online THEN SyncPetToRemote(s2, pet_id, ok)
                  ELSE Out(s2, FALSE, TRUE)
         IN Out(o.s, TRUE, o.ok)

\* delete_pet with an UPDATE that leaves sync_status as it is
DeletePetOpKeepStatus(s, pet_id, ok) ==
    LET s1 == [s EXCEPT !.local_pets =
                   {IF r.id = pet_id
                    THEN [r EXCEPT !.is_deleted = 1, !.updated_at = GetTimestamp]
                    ELSE r : r \in @}]
        s2 == LogChange(s1, "pets", pet_id, "DELETE")
        o == IF s2.is_online THEN SyncPetToRemote(s2, pet_id, ok)
             ELSE Out(s2, FALSE, TRUE)
    IN Out(o.s, TRUE, o.ok)

\* delete_pet
DeletePetOp(s, pet_id, ok) ==
    LET s1 == [s EXCEPT !.local_pets =
                   {IF r.id = pet_id
                    THEN [r EXCEPT !.is_deleted = 1, !.updated_at = GetTimestamp,
                                   !.sync_status = "pending"]
                    ELSE r : r \in @}]
        s2 == LogChange(s1, "pets", pet_id, "DELETE")
        o == IF s2.is_online THEN SyncPetToRemote(s2, pet_id, ok)
             ELSE Out(s2, FALSE, TRUE)
    IN Out(o.s, TRUE, o.ok)

\* ------------------------------------------------- a local store that can fail
\* what the local store does to the two writes of a mutation: both succeed, the
\* row write raises, or the row write is committed and the journal INSERT of
\* _log_change raises
LocalOutcomes == {"ok", "row_fails", "log_fails"}

\* the store a mutation leaves when _log_change raises: o is the mutation run
\* up to and including its row write (no push), the journal is as it was
Interrupted(s, o) == [o.s EXCEPT !.sync_log = s.sync_log, !.is_online = s.is_online]

\* create_user with the local outcome: the except clause returns None
CreateUserTx(s, user_id, username, ok, local) ==
    IF local = "ok" THEN CreateUserOp(s, user_id, username, ok)
    ELSE IF local = "row_fails" THEN Out(s, NoId, FALSE)
    ELSE Out(Interrupted(s, CreateUserOp([s EXCEPT !.is_online = FALSE],
                                         user_id, username, TRUE)),
             NoId, FALSE)

\* create_pet with the local outcome: the except clause returns None
CreatePetTx(s, pet_id, user_id, name, ok, local) ==
    IF local = "ok" THEN CreatePetOp(s, pet_id, user_id, name, ok)
    ELSE IF local = "row_fails" THEN Out(s, NoId, FALSE)
    ELSE Out(Interrupted(s, CreatePetOp([s EXCEPT !.is_online = FALSE],
                                        pet_id, user_id, name, TRUE)),
             NoId, FALSE)

\* update_pet with the local outcome: the except clause returns False; with no
\* allowed field the call returns before any write
UpdatePetTx(s, pet_id, kwargs, ok, local) ==
    IF local = "ok" \/ DOMAIN kwargs \cap AllowedFields = {}
    THEN UpdatePetOp(s, pet_id, kwargs, ok)
    ELSE IF local = "row_fails" THEN Out(s, FALSE, FALSE)
    ELSE Out(Interrupted(s, UpdatePetOp([s EXCEPT !.is_online = FALSE],
                                        pet_id, kwargs, TRUE)),
             FALSE, FALSE)

\* delete_pet with the local outcome: the except clause returns False
DeletePetTx(s, pet_id, ok, local) ==
    IF local = "ok" THEN DeletePetOp(s, pet_id, ok)
    ELSE IF local = "row_fails" THEN Out(s, FALSE, FALSE)
    ELSE Out(Interrupted(s, DeletePetOp([s EXCEPT !.is_online = FALSE], pet_id, TRUE)),
             FALSE, FALSE)

\* ------------------------------------------------------------------ state
\* the variables of the store take the fields of s
Commit(s) ==
    /\ is_online' = s.is_online
    /\ remote_conn' = s.remote_conn
    /\ local_users' = s.local_users
    /\ local_pets' = s.local_pets
    /\ sync_log' = s.sync_log
    /\ remote_users' = s.remote_users
    /\ remote_pets' = s.remote_pets

\* the outcomes the environment can give a remote call that is made
Connects == IF configured THEN ConnectOutcomes ELSE {"ok"}
Writes == IF is_online /\ remote_conn THEN BOOLEAN ELSE {TRUE}
Fails(c, table) == IF configured /\ c = "ok" THEN SUBSET PendingIds(table) ELSE {{}}
Fetches(c) == IF configured /\ c = "ok" THEN BOOLEAN ELSE {TRUE}

\* the number of journal entries for the pets table
PetChanges == Cardinality({i \in DOMAIN sync_log : sync_log[i].table_name = "pets"})

\* uuid4 never repeats an id in use anywhere
FreshPetId(id) == id \notin Ids(local_pets) \cup Ids(remote_pets)
FreshUserId(id) == id \notin Ids(local_users) \cup Ids(remote_users)

\* DatabaseManager.__init__ on an empty local file, and PetManagerApp.__init__
\* with no session to restore: the login view, no timer
Init ==
    /\ now = 0
    /\ configured \in BOOLEAN
    /\ \E c \in ConnectOutcomes :
          LET o == TryConnectRemote(
                     [is_online |-> FALSE, remote_conn |-> FALSE,
                      local_users |-> {}, local_pets |-> {}, sync_log |-> <<>>,
                      remote_users |-> {}, remote_pets |-> {}], c)
          IN /\ is_online = o.s.is_online
             /\ remote_conn = o.s.remote_conn
    /\ local_users = {}
    /\ local_pets = {}
    /\ sync_log = <<>>
    /\ remote_users = {}
    /\ remote_pets = {}
    /\ device_writes = 0
    /\ session_file = NoId
    /\ current_user = NoId
    /\ view = "login"
    /\ sync_timer_id = NoId
    /\ timers = {}

\* ---------------------------------------------------------------- actions
\* the wall clock advances
Tick ==
    /\ now < MaxClock
    /\ now' = now + 1
    /\ UNCHANGED <<configured, dbvars, device_writes, appvars>>

\* another device of the same account writes a pet row to the remote store:
\* a row it created, or a new version of a row it pulled
DeviceWrite ==
    /\ device_writes < MaxDeviceWrites
    /\ \E id \in PetIds, u \in UserIds, n \in Names, t \in Ticks, d \in {0, 1} :
          /\ \/ HasRow(remote_pets, id)
             \/ FreshPetId(id)
          /\ LET old == RowOf(remote_pets, id)
                 row == IF HasRow(remote_pets, id)
                        THEN [old EXCEPT !.name = n, !.updated_at = IsoFormat(t),
                                         !.is_deleted = d]
                        ELSE [NewPetRow(id, u, n) EXCEPT
                                 !.created_at = IsoFormat(t), !.updated_at = IsoFormat(t),
                                 !.is_deleted = d, !.sync_status = "synced"]
             IN /\ ParseIso(row.created_at) <= t
                /\ remote_pets' = ReplacePet(remote_pets, row)
    /\ device_writes' = device_writes + 1
    /\ UNCHANGED <<now, configured, is_online, remote_conn, local_users, local_pets,
                   sync_log, remote_users, appvars>>

\* a call of check_connection
CheckConnection ==
    /\ \E c \in Connects :
          LET o == CheckConnectionOp(Store, c)
          IN Commit(o.s)
    /\ UNCHANGED <<now, configured, device_writes, appvars>>

\* a call of create_user
CreateUser ==
    /\ \E id \in UserIds, name \in Usernames, ok \in Writes :
          /\ FreshUserId(id)
          /\ LET o == CreateUserOp(Store, id, name, ok)
             IN Commit(o.s)
    /\ UNCHANGED <<now, configured, device_writes, appvars>>

\* a call of create_pet
CreatePet ==
    /\ PetChanges < MaxPetChanges
    /\ \E id \in PetIds, u \in UserIds, n \in Names, ok \in Writes :
          /\ FreshPetId(id)
          /\ LET o == CreatePetOp(Store, id, u, n, ok)
             IN Commit(o.s)
    /\ UNCHANGED <<now, configured, device_writes, appvars>>

\* a call of create_pet in a run that creates up to MaxBatch pets
CreatePetBatch ==
    /\ PetChanges < MaxBatch
    /\ \E id \in PetIds, u \in UserIds, n \in Names, ok \in Writes :
          /\ FreshPetId(id)
          /\ LET o == CreatePetOp(Store, id, u, n, ok)
             IN Commit(o.s)
    /\ UNCHANGED <<now, configured, device_writes, appvars>>

\* the keyword arguments a caller passes to update_pet
KwKeySets == {{}, {"name"}, AllowedFields, {"is_deleted"}, {"name", "is_deleted"}}
KwValue(k, n) ==
    IF k = "name" THEN n
    ELSE IF k = "species" THEN "cat"
    ELSE IF k \in {"age", "weight", "is_deleted"} THEN 0
    ELSE ""

\* a call of update_pet
UpdatePet ==
    /\ PetChanges < MaxPetChanges
    /\ \E id \in PetIds, keys \in KwKeySets, n \in Names, ok \in Writes :
          LET o == UpdatePetOp(Store, id, [k \in keys |-> KwValue(k, n)], ok)
          IN Commit(o.s)
    /\ UNCHANGED <<now, configured, device_writes, appvars>>

\* a call of delete_pet
DeletePet ==
    /\ PetChanges < MaxPetChanges
    /\ \E id \in PetIds, ok \in Writes :
          LET o == DeletePetOp(Store, id, ok)
          IN Commit(o.s)
    /\ UNCHANGED <<now, configured, device_writes, appvars>>

\* a call of _sync_pet_to_remote
PushPet ==
    /\ \E id \in PetIds, ok \in Writes :
          LET o == SyncPetToRemote(Store, id, ok)
          IN Commit(o.s)
    /\ UNCHANGED <<now, configured, device_writes, appvars>>

\* a call of _sync_user_to_remote
PushUser ==
    /\ \E id \in UserIds, ok \in Writes :
          LET o == SyncUserToRemote(Store, id, ok)
          IN Commit(o.s)
    /\ UNCHANGED <<now, configured, device_writes, appvars>>

\* a call of sync_all_pending
SyncAll ==
    /\ \E c \in Connects :
       \E failU \in Fails(c, local_users), failP \in Fails(c, local_pets) :
          LET o == SyncAllPending(Store, c, failU, failP)
          IN Commit(o.s)
    /\ UNCHANGED <<now, configured, device_writes, appvars>>

\* a call of pull_from_remote
Pull ==
    /\ \E u \in UserIds, ok \in Writes :
          LET o == PullFromRemote(Store, u, ok)
          IN Commit(o.s)
    /\ UNCHANGED <<now, configured, device_writes, appvars>>

\* a call of full_sync
FullSyncCall ==
    /\ \E u \in UserIds, c \in Connects :
       \E failU \in Fails(c, local_users), failP \in Fails(c, local_pets),
          fetch_ok \in Fetches(c) :
          LET o == FullSync(Store, u, c, failU, failP, fetch_ok)
          IN Commit(o.s)
    /\ UNCHANGED <<now, configured, device_writes, appvars>>

Next ==
    \/ Tick
    \/ DeviceWrite
    \/ CheckConnection
    \/ CreateUser
    \/ CreatePet
    \/ UpdatePet
    \/ DeletePet
    \/ PushPet
    \/ PushUser
    \/ SyncAll
    \/ Pull
    \/ FullSyncCall

Spec == Init /\ [][Next]_vars

\* runs that create several records and push them: no other device writes,
\* nothing is updated or deleted
NextBatch ==
    \/ Tick
    \/ CheckConnection
    \/ CreateUser
    \/ CreatePetBatch
    \/ PushPet
    \/ PushUser
    \/ SyncAll
    \/ Pull
    \/ FullSyncCall

SpecBatch == Init /\ [][NextBatch]_vars

\* ------------------------------------------------- several accounts
\* the ids uuid4 can give to accounts and the usernames people choose, on this
\* device and on others
AccountIds == 1..MaxAccounts
AccountNames == {"ann", "bob"}

\* a call of create_user for any of the accounts
CreateAccount ==
    /\ \E id \in AccountIds, name \in AccountNames, ok \in Writes :
          /\ FreshUserId(id)
          /\ LET o == CreateUserOp(Store, id, name, ok)
             IN Commit(o.s)
    /\ UNCHANGED <<now, configured, device_writes, appvars>>

\* another device registers an account and pushes it: its _sync_user_to_remote
\* writes the row to the remote users table
DeviceRegister ==
    /\ device_writes < MaxDeviceWrites
    /\ \E id \in AccountIds, name \in AccountNames, t \in Ticks :
          /\ FreshUserId(id)
          /\ remote_users' = ReplaceUser(remote_users,
                 [id |-> id, username |-> name, password_hash |-> "hash",
                  created_at |-> IsoFormat(t), updated_at |-> IsoFormat(t),
                  is_deleted |-> 0, sync_status |-> "synced"])
    /\ device_writes' = device_writes + 1
    /\ UNCHANGED <<now, configured, is_online, remote_conn, local_users, local_pets,
                   sync_log, remote_pets, appvars>>

\* a call of _sync_user_to_remote for any of the accounts
PushAccount ==
    /\ \E id \in AccountIds, ok \in Writes :
          LET o == SyncUserToRemote(Store, id, ok)
          IN Commit(o.s)
    /\ UNCHANGED <<now, configured, device_writes, appvars>>

NextUsers ==
    \/ Tick
    \/ CheckConnection
    \/ CreateAccount
    \/ DeviceRegister
    \/ PushAccount
    \/ SyncAll

SpecUsers == Init /\ [][NextUsers]_vars

\* datetime.utcnow() has microsecond resolution: a mutation never reads the very
\* value that an earlier call stamped on a local row or that a pull landed
ClockMoved == \A l \in local_pets : ParseIso(l.updated_at) # now

\* update_pet and delete_pet called at such a clock reading
UpdatePetLater == ClockMoved /\ UpdatePet
DeletePetLater == ClockMoved /\ DeletePet

NextClock ==
    \/ Tick
    \/ DeviceWrite
    \/ CheckConnection
    \/ CreateUser
    \/ CreatePet
    \/ UpdatePetLater
    \/ DeletePetLater
    \/ PushPet
    \/ PushUser
    \/ SyncAll
    \/ Pull
    \/ FullSyncCall

SpecClock == Init /\ [][NextClock]_vars

\* the rows no journal entry names
Unjournalled ==
    {<<"users", r.id>> : r \in {x \in local_users :
        \A i \in DOMAIN sync_log :
           sync_log[i].table_name # "users" \/ sync_log[i].record_id # x.id}}
    \cup
    {<<"pets", r.id>> : r \in {x \in local_pets :
        \A i \in DOMAIN sync_log :
           sync_log[i].table_name # "pets" \/ sync_log[i].record_id # x.id}}

\* the local outcomes explored: failures stop once a row lacks its journal entry
LocalChoices == IF Unjournalled = {} THEN LocalOutcomes ELSE {"ok"}

\* the mutations on a local store whose writes can fail
CreateUserAny ==
    /\ \E id \in UserIds, name \in Usernames, ok \in Writes, local \in LocalChoices :
          /\ FreshUserId(id)
          /\ LET o == CreateUserTx(Store, id, name, ok, local)
             IN Commit(o.s)
    /\ UNCHANGED <<now, configured, device_writes, appvars>>

CreatePetAny ==
    /\ PetChanges < MaxPetChanges
    /\ \E id \in PetIds, u \in UserIds, n \in Names, ok \in Writes,
          local \in LocalChoices :
          /\ FreshPetId(id)
          /\ LET o == CreatePetTx(Store, id, u, n, ok, local)
             IN Commit(o.s)
    /\ UNCHANGED <<now, configured, device_writes, appvars>>

UpdatePetAny ==
    /\ PetChanges < MaxPetChanges
    /\ \E id \in PetIds, keys \in KwKeySets, n \in Names, ok \in Writes,
          local \in LocalChoices :
          LET o == UpdatePetTx(Store, id, [k \in keys |-> KwValue(k, n)], ok, local)
          IN Commit(o.s)
    /\ UNCHANGED <<now, configured, device_writes, appvars>>

DeletePetAny ==
    /\ PetChanges < MaxPetChanges
    /\ \E id \in PetIds, ok \in Writes, local \in LocalChoices :
          LET o == DeletePetTx(Store, id, ok, local)
          IN Commit(o.s)
    /\ UNCHANGED <<now, configured, device_writes, appvars>>

NextLocal ==
    \/ Tick
    \/ CheckConnection
    \/ CreateUserAny
    \/ CreatePetAny
    \/ UpdatePetAny
    \/ DeletePetAny
    \/ PushPet
    \/ PushUser
    \/ SyncAll

SpecLocal == Init /\ [][NextLocal]_vars

\* ------------------------------------------------------------ application
\* the id Tk's after() returns: one no pending callback and no stored id has
NewTimerId ==
    CHOOSE i \in 1..(Cardinality(timers) + 2) :
        /\ i \notin timers \cup {sync_timer_id}
        /\ \A j \in 1..(i - 1) : j \in timers \cup {sync_timer_id}

\* the database part of _do_auto_sync without the call of sync_all_pending
AutoSyncDbCheckOnly(s, c1, c2, failU, failP) ==
    Only({Out(chk.s, [checked |-> chk.ret, pushed |-> FALSE, pulled |-> FALSE], chk.ok) :
          chk \in {CheckConnectionOp(s, c1)}})

\* the database part of _do_auto_sync for an authenticated user: check_connection,
\* then sync_all_pending (which checks again) when it reports available
AutoSyncDb(s, c1, c2, failU, failP) ==
    Only({
        IF chk.ret
        THEN Only({
            Out(push.s, [checked |-> TRUE, pushed |-> push.ret, pulled |-> FALSE],
                chk.ok /\ push.ok) :
            push \in {SyncAllPending(chk.s, c2, failU, failP)}})
        ELSE Out(chk.s, [checked |-> FALSE, pushed |-> FALSE, pulled |-> FALSE], chk.ok) :
        chk \in {CheckConnectionOp(s, c1)}})

\* _do_auto_sync: the attempt when authenticated, then the next timer in any case
DoAutoSync(s, authenticated, c1, c2, failU, failP) ==
    IF authenticated
    THEN AutoSyncDb(s, c1, c2, failU, failP)
    ELSE Out(s, [checked |-> FALSE, pushed |-> FALSE, pulled |-> FALSE], TRUE)

\* _do_auto_sync without the call of after(): no next attempt is scheduled
ArmNone(pending) ==
    /\ sync_timer_id' = NoId
    /\ timers' = pending

\* the next attempt scheduled by a repeating timer: the callback that has just
\* run stays scheduled next to the new one
ArmRepeating(pending) ==
    /\ sync_timer_id' = NewTimerId
    /\ timers' = timers \cup {NewTimerId}

\* self._sync_timer_id = self._root.after(..., self._do_auto_sync)
Arm(pending) ==
    /\ sync_timer_id' = NewTimerId
    /\ timers' = pending \cup {NewTimerId}

\* _stop_auto_sync without after_cancel: the id is forgotten, the callback stays
StopAutoSyncKeep ==
    /\ timers' = timers
    /\ sync_timer_id' = NoId

\* _stop_auto_sync
StopAutoSync ==
    /\ timers' = IF sync_timer_id # NoId THEN timers \ {sync_timer_id} ELSE timers
    /\ sync_timer_id' = NoId

\* the outcomes of the remote calls of an attempt made in store s
AttemptChoices(s) ==
    {ch \in [c1 : Connects, c2 : Connects,
             failU : SUBSET PendingIds(s.local_users),
             failP : SUBSET PendingIds(s.local_pets)] :
        /\ (ch.c1 # "ok" \/ ~configured) => ch.c2 = "ok"
        /\ (ch.c1 # "ok" \/ ch.c2 # "ok" \/ ~configured) => ch.failU = {} /\ ch.failP = {}}

\* a timer fires: the Tk event loop runs _do_auto_sync
TimerFire ==
    /\ view # "closed"
    /\ \E id \in timers :
       \E ch \in AttemptChoices(Store) :
          LET o == DoAutoSync(Store, current_user # NoId, ch.c1, ch.c2, ch.failU, ch.failP)
          IN /\ Commit(o.s)
             /\ Arm(timers \ {id})
    /\ UNCHANGED <<now, configured, device_writes, session_file, current_user, view>>

\* _handle_register with a valid form: AuthManager.register
Register ==
    /\ view = "login"
    /\ \E id \in UserIds, name \in Usernames, ok \in Writes :
          /\ FreshUserId(id)
          /\ LET o == IF GetUserByUsername(local_users, name) # NoRow
                      THEN Out(Store, NoId, TRUE)
                      ELSE CreateUserOp(Store, id, name, ok)
             IN Commit(o.s)
    /\ UNCHANGED <<now, configured, device_writes, appvars>>

\* the outcomes of the remote calls of a full_sync
SyncChoices ==
    {ch \in [c : Connects, failU : SUBSET PendingIds(local_users),
             failP : SUBSET PendingIds(local_pets), fetch_ok : BOOLEAN] :
        (ch.c # "ok" \/ ~configured) =>
            ch.failU = {} /\ ch.failP = {} /\ ch.fetch_ok}

\* _handle_login: AuthManager.login, then _show_dashboard, which starts the auto sync
Login ==
    /\ view = "login"
    /\ \E name \in Usernames, password_ok \in BOOLEAN :
          LET user == GetUserByUsername(local_users, name) IN
          IF user = NoRow \/ ~password_ok
          THEN UNCHANGED <<dbvars, appvars>>
          ELSE \E fs \in SyncChoices :
               LET o1 == IF is_online
                         THEN FullSync(Store, user.id, fs.c, fs.failU, fs.failP, fs.fetch_ok)
                         ELSE Out(Store, FALSE, TRUE)
               IN \E ch \in AttemptChoices(o1.s) :
                  LET o2 == DoAutoSync(o1.s, TRUE, ch.c1, ch.c2, ch.failU, ch.failP)
                  IN /\ Commit(o2.s)
                     /\ session_file' = user.id
                     /\ current_user' = user.id
                     /\ view' = "dashboard"
                     /\ Arm(timers)
    /\ UNCHANGED <<now, configured, device_writes>>

\* logout: AuthManager.logout, then _show_login, which stops the auto sync
Logout ==
    /\ view = "dashboard"
    /\ session_file' = NoId
    /\ current_user' = NoId
    /\ view' = "login"
    /\ StopAutoSync
    /\ UNCHANGED <<now, configured, dbvars, device_writes>>

\* _on_close: the timer is stopped, the connections closed, the window destroyed
\* (a destroyed root runs no callback)
Close ==
    /\ view # "closed"
    /\ view' = "closed"
    /\ sync_timer_id' = NoId
    /\ timers' = {}
    /\ UNCHANGED <<now, configured, dbvars, device_writes, session_file, current_user>>

\* the program is started again on the same local file: DatabaseManager.__init__,
\* AuthManager.restore_session, then the dashboard or the login view
Launch ==
    /\ view = "closed"
    /\ \E c \in Connects, expired \in BOOLEAN :
          LET s0 == TryConnectRemote(
                       [Store EXCEPT !.is_online = FALSE, !.remote_conn = FALSE], c)
              user == GetUserById(local_users, session_file)
              restored == session_file # NoId /\ ~expired /\ user # NoRow
          IN IF restored
             THEN \E ch \in AttemptChoices(s0.s) :
                  LET o == DoAutoSync(s0.s, TRUE, ch.c1, ch.c2, ch.failU, ch.failP)
                  IN /\ Commit(o.s)
                     /\ current_user' = user.id
                     /\ view' = "dashboard"
                     /\ Arm({})
                     /\ UNCHANGED session_file
             ELSE /\ Commit(s0.s)
                  /\ current_user' = NoId
                  /\ view' = "login"
                  /\ sync_timer_id' = NoId
                  /\ timers' = {}
                  /\ session_file' = NoId
    /\ UNCHANGED <<now, configured, device_writes>>

\* the Sync button: PetManagerApp.sync
ManualSync ==
    /\ view = "dashboard"
    /\ IF current_user = NoId
       THEN UNCHANGED dbvars
       ELSE \E fs \in SyncChoices :
            LET o == FullSync(Store, current_user, fs.c, fs.failU, fs.failP, fs.fetch_ok)
            IN Commit(o.s)
    /\ UNCHANGED <<now, configured, device_writes, appvars>>

\* the Add Pet dialog saved: PetManagerApp.add_pet
AddPet ==
    /\ view = "dashboard"
    /\ current_user # NoId
    /\ PetChanges < MaxPetChanges
    /\ \E id \in PetIds, n \in Names, ok \in Writes :
          /\ FreshPetId(id)
          /\ LET o == CreatePetOp(Store, id, current_user, n, ok)
             IN Commit(o.s)
    /\ UNCHANGED <<now, configured, device_writes, appvars>>

\* the data PetDialog._save collects
DialogData(n) == [k \in AllowedFields |-> KwValue(k, n)]

\* the Edit Pet dialog saved for a pet selected in the list: PetManagerApp.update_pet
EditPet ==
    /\ view = "dashboard"
    /\ PetChanges < MaxPetChanges
    /\ \E p \in GetPetsByUser(local_pets, current_user), n \in Names, ok \in Writes :
          LET o == UpdatePetOp(Store, p.id, DialogData(n), ok)
          IN Commit(o.s)
    /\ UNCHANGED <<now, configured, device_writes, appvars>>

\* Delete confirmed for a pet selected in the list: PetManagerApp.delete_pet
RemovePet ==
    /\ view = "dashboard"
    /\ PetChanges < MaxPetChanges
    /\ \E p \in GetPetsByUser(local_pets, current_user), ok \in Writes :
          LET o == DeletePetOp(Store, p.id, ok)
          IN Commit(o.s)
    /\ UNCHANGED <<now, configured, device_writes, appvars>>

\* ------------------------------------------------------ several owners
\* create_pet for any of the accounts
CreatePetOwner ==
    /\ PetChanges < MaxBatch
    /\ \E id \in PetIds, u \in AccountIds, n \in Names, ok \in Writes :
          /\ FreshPetId(id)
          /\ LET o == CreatePetOp(Store, id, u, n, ok)
             IN Commit(o.s)
    /\ UNCHANGED <<now, configured, device_writes, appvars>>

\* another device pushes a pet of any of the accounts, new or rewritten
DeviceWriteOwner ==
    /\ device_writes < MaxDeviceWrites
    /\ \E id \in PetIds, u \in AccountIds, n \in Names, t \in Ticks :
          /\ \/ HasRow(remote_pets, id)
             \/ FreshPetId(id)
          /\ LET old == RowOf(remote_pets, id)
                 row == IF HasRow(remote_pets, id)
                        THEN [old EXCEPT !.name = n, !.updated_at = IsoFormat(t)]
                        ELSE [NewPetRow(id, u, n) EXCEPT
                                 !.created_at = IsoFormat(t), !.updated_at = IsoFormat(t),
                                 !.sync_status = "synced"]
             IN /\ ParseIso(row.created_at) <= t
                /\ remote_pets' = ReplacePet(remote_pets, row)
    /\ device_writes' = device_writes + 1
    /\ UNCHANGED <<now, configured, is_online, remote_conn, local_users, local_pets,
                   sync_log, remote_users, appvars>>

\* a call of pull_from_remote for any of the accounts
PullOwner ==
    /\ \E u \in AccountIds, ok \in Writes :
          LET o == PullFromRemote(Store, u, ok)
          IN Commit(o.s)
    /\ UNCHANGED <<now, configured, device_writes, appvars>>

NextOwners ==
    \/ Tick
    \/ CheckConnection
    \/ CreatePetOwner
    \/ DeviceWriteOwner
    \/ PushPet
    \/ PullOwner

SpecOwners == Init /\ [][NextOwners]_vars

\* a timer fires while the remote is configured, reachable and accepts every
\* write of the attempt
TimerFireReached ==
    /\ configured
    /\ view # "closed"
    /\ \E id \in timers :
          LET o == DoAutoSync(Store, current_user # NoId, "ok", "ok", {}, {})
          IN /\ Commit(o.s)
             /\ Arm(timers \ {id})
    /\ UNCHANGED <<now, configured, device_writes, session_file, current_user, view>>

\* the application as the only writer of the remote store
NextSolo ==
    \/ Register
    \/ Login
    \/ Logout
    \/ Close
    \/ Launch
    \/ TimerFire
    \/ ManualSync
    \/ AddPet
    \/ Tick

\* the Tk event loop runs a due callback, and the remote, staying reachable, is
\* reached by an attempt sooner or later
SpecSolo == Init /\ [][NextSolo]_vars /\ WF_vars(TimerFireReached)

\* ------------------------------------------------------ the pet form
\* what the Name entry can hold, and str.strip() of it
FormNames == {"", " ", "Rex", " Tom "}
Strip(t) == IF t = " " THEN "" ELSE IF t = " Tom " THEN "Tom" ELSE t

\* what the Age and Weight entries can hold (already stripped), whether int()
\* or float() accepts the text, and the number it gives
NumTexts == {"", "3", "-1", "x"}
IsNumber(t) == t \in {"3", "-1"}
NumberOf(t) == IF t = "3" THEN 3 ELSE IF t = "-1" THEN 0 - 1 ELSE 0

Forms == [name : FormNames, age : NumTexts, weight : NumTexts]

\* PetDialog._validate
Validate(f) ==
    /\ Strip(f.name) # ""
    /\ f.age # "" => (IsNumber(f.age) /\ NumberOf(f.age) >= 0)
    /\ f.weight # "" => (IsNumber(f.weight) /\ NumberOf(f.weight) >= 0)

\* the data PetDialog._save hands to on_save
FormData(f) ==
    [k \in AllowedFields |->
        IF k = "name" THEN Strip(f.name)
        ELSE IF k = "age" THEN (IF f.age # "" THEN NumberOf(f.age) ELSE 0)
        ELSE IF k = "weight" THEN (IF f.weight # "" THEN NumberOf(f.weight) ELSE 0)
        ELSE KwValue(k, "")]

\* the data dicts a caller can hand to PetManagerApp.add_pet and update_pet
RawNames == Names \cup {""}
RawAges == {0 - 1, 0}
RawData ==
    {[k \in {} |-> ""]}
    \cup {[name |-> n] : n \in RawNames}
    \cup {[name |-> n, age |-> a] : n \in RawNames, a \in RawAges}

\* PetManagerApp.add_pet: data.get("name", "") and the other fields go to
\* create_pet as they are (the model's row keeps the name of them)
AddPetOp(s, user, pet_id, data, ok) ==
    IF user = NoId THEN Out(s, FALSE, TRUE)
    ELSE LET name == IF "name" \in DOMAIN data THEN data["name"] ELSE ""
             o == CreatePetOp(s, pet_id, user, name, ok)
         IN Out(o.s, o.ret # NoId, o.ok)

\* Save pressed in the Add Pet dialog: _save, then on_save calls add_pet
SaveAddPet ==
    /\ view = "dashboard"
    /\ PetChanges < MaxBatch
    /\ \E f \in Forms, id \in PetIds, ok \in Writes :
          /\ FreshPetId(id)
          /\ IF Validate(f)
             THEN Commit(AddPetOp(Store, current_user, id, FormData(f), ok).s)
             ELSE UNCHANGED dbvars
    /\ UNCHANGED <<now, configured, device_writes, appvars>>

\* Save pressed in the Edit Pet dialog of a listed pet: on_save calls update_pet
SaveEditPet ==
    /\ view = "dashboard"
    /\ PetChanges < MaxBatch
    /\ \E p \in GetPetsByUser(local_pets, current_user), f \in Forms, ok \in Writes :
          IF Validate(f)
          THEN Commit(UpdatePetOp(Store, p.id, FormData(f), ok).s)
          ELSE UNCHANGED dbvars
    /\ UNCHANGED <<now, configured, device_writes, appvars>>

\* PetManagerApp.add_pet and update_pet called with any data dict
AddPetData ==
    /\ PetChanges < MaxBatch
    /\ \E data \in RawData, id \in PetIds, ok \in Writes :
          /\ FreshPetId(id)
          /\ Commit(AddPetOp(Store, current_user, id, data, ok).s)
    /\ UNCHANGED <<now, configured, device_writes, appvars>>

UpdatePetData ==
    /\ PetChanges < MaxBatch
    /\ \E data \in RawData, id \in PetIds, ok \in Writes :
          Commit(UpdatePetOp(Store, id, data, ok).s)
    /\ UNCHANGED <<now, configured, device_writes, appvars>>

NextForm ==
    \/ Tick
    \/ Register
    \/ Login
    \/ Logout
    \/ SaveAddPet
    \/ SaveEditPet
    \/ AddPetData
    \/ UpdatePetData

SpecForm == Init /\ [][NextForm]_vars

NextApp ==
    \/ Tick
    \/ DeviceWrite
    \/ Register
    \/ Login
    \/ Logout
    \/ Close
    \/ Launch
    \/ TimerFire
    \/ ManualSync
    \/ AddPet
    \/ EditPet
    \/ RemovePet

SpecApp == Init /\ [][NextApp]_vars

\* the application with the clock standing still: no step of the scheduler reads
\* a timestamp
NextSched ==
    \/ DeviceWrite
    \/ Register
    \/ Login
    \/ Logout
    \/ Close
    \/ Launch
    \/ TimerFire
    \/ ManualSync
    \/ AddPet
    \/ EditPet
    \/ RemovePet

SpecSched == Init /\ [][NextSched]_vars

\* the Tk event loop runs a due callback unless the timer is cancelled first
SpecSchedFair == SpecSched /\ WF_vars(TimerFire)

\* ============================================================== properties
\* the time a stored timestamp denotes
T(row) == ParseIso(row.updated_at)
Online == is_online /\ remote_conn
\* the columns a pull or a push copies
CopiedColumns ==
    {"id", "user_id", "name", "species", "breed", "age", "weight", "notes",
     "created_at", "updated_at", "is_deleted"}
\* the remote rows a pull for owner u lands in table: those with no local row
\* and those strictly newer than their local row
Lands(table, remote, u) ==
    {r \in remote : /\ r.user_id = u
                    /\ \/ ~HasRow(table, r.id)
                       \/ T(RowOf(table, r.id)) < T(r)}

\* C1 - Pull monotonicity: an online pull_from_remote for an owner overwrites
\* the local row of a remote row exactly when the remote updated_at is strictly
\* later; with an equal or earlier remote updated_at the local row keeps every
\* field and its sync_status; a remote row with no local row is inserted.
C1_PullMonotonicity ==
    Online =>
        \A u \in UserIds :
            LET after == PullFromRemote(Store, u, TRUE).s.local_pets IN
            \A r \in remote_pets :
                r.user_id = u =>
                    /\ HasRow(after, r.id)
                    /\ IF ~HasRow(local_pets, r.id)
                       THEN RowOf(after, r.id) = [r EXCEPT !.sync_status = "synced"]
                       ELSE IF T(RowOf(local_pets, r.id)) < T(r)
                       THEN /\ RowOf(after, r.id) = [r EXCEPT !.sync_status = "synced"]
                            /\ RowOf(after, r.id) # RowOf(local_pets, r.id)
                       ELSE RowOf(after, r.id) = RowOf(local_pets, r.id)

\* a pending local row is older than its remote row, which has another name: the
\* pull replaces it
WitnessC1 ==
    /\ Online
    /\ \E r \in remote_pets, l \in local_pets :
          /\ r.id = l.id /\ T(l) < T(r) /\ l.name # r.name
          /\ l.sync_status = "pending"
          /\ RowOf(PullFromRemote(Store, r.user_id, TRUE).s.local_pets, r.id).name = r.name

\* C2 - pull_from_remote returns as pets the number of local rows it wrote (1
\* when one remote row is later than its existing local row and nothing else is
\* to land), and a row it wrote equals the remote row in every column, with
\* sync_status 'synced'.
C2_PullCountAndCopy ==
    Online =>
        \A u \in UserIds :
            LET o == PullFromRemote(Store, u, TRUE)
                written == {id \in Ids(o.s.local_pets) :
                               \/ ~HasRow(local_pets, id)
                               \/ RowOf(o.s.local_pets, id) # RowOf(local_pets, id)}
            IN /\ o.ret.pets = Cardinality(written)
               /\ \A r \in Lands(local_pets, remote_pets, u) :
                     /\ r.id \in written
                     /\ \A c \in CopiedColumns : RowOf(o.s.local_pets, r.id)[c] = r[c]
                     /\ RowOf(o.s.local_pets, r.id).sync_status = "synced"
               /\ \A r \in remote_pets :
                     (Lands(local_pets, remote_pets, u) = {r} /\ HasRow(local_pets, r.id))
                        => o.ret.pets = 1

\* one remote row, deleted on the other device, is later than its local row: the
\* pull returns 1 and the local row becomes deleted
WitnessC2 ==
    /\ Online
    /\ \E r \in remote_pets :
          /\ HasRow(local_pets, r.id)
          /\ Lands(local_pets, remote_pets, r.user_id) = {r}
          /\ r.is_deleted = 1 /\ RowOf(local_pets, r.id).is_deleted = 0
          /\ LET o == PullFromRemote(Store, r.user_id, TRUE)
             IN o.ret.pets = 1 /\ RowOf(o.s.local_pets, r.id).is_deleted = 1

\* C3 - Push-then-pull convergence: a pending local row later than its remote
\* copy is, after a full_sync whose remote calls all succeed, 'synced' with its
\* content intact, the remote row holds that content, and the pull phase does
\* not count or overwrite it (every pending row is pushed before the pull).
C3_PushThenPull ==
    configured =>
        \A l \in local_pets :
            (/\ l.sync_status = "pending"
             /\ HasRow(remote_pets, l.id)
             /\ T(RowOf(remote_pets, l.id)) < T(l))
            => LET o == FullSync(Store, l.user_id, "ok", {}, {}, TRUE)
               IN /\ RowOf(o.s.local_pets, l.id) = [l EXCEPT !.sync_status = "synced"]
                  /\ RowOf(o.s.remote_pets, l.id) = [l EXCEPT !.sync_status = "synced"]
                  /\ o.ret.pushed.pets = Cardinality(PendingIds(local_pets))
                  /\ o.ret.pulled.pets =
                        Cardinality({r \in Lands(local_pets, remote_pets, l.user_id) :
                                        r.id \notin PendingIds(local_pets)})
                  /\ o.ret.is_online

\* a pending local row with other content than its earlier remote copy
WitnessC3 ==
    /\ configured
    /\ \E l \in local_pets :
          /\ l.sync_status = "pending"
          /\ HasRow(remote_pets, l.id)
          /\ T(RowOf(remote_pets, l.id)) < T(l)
          /\ RowOf(remote_pets, l.id).name # l.name
          /\ RowOf(FullSync(Store, l.user_id, "ok", {}, {}, TRUE).s.remote_pets, l.id).name
                = l.name

\* the sync_status of every local row
Statuses(s) ==
    [users |-> {<<r.id, r.sync_status>> : r \in s.local_users},
     pets |-> {<<r.id, r.sync_status>> : r \in s.local_pets}]
\* a call that returned zero counts and touched neither store
NoOp(o) ==
    /\ o.s.remote_users = remote_users /\ o.s.remote_pets = remote_pets
    /\ o.s.local_users = local_users /\ o.s.local_pets = local_pets
    /\ Statuses(o.s) = Statuses(Store)

\* C4 as stated - Offline no-op: with the availability flag reporting unavailable
\* when sync_all_pending or pull_from_remote is invoked, the call returns zero
\* counts for every table, writes nothing to the remote and leaves every local
\* sync_status unchanged.
C4_OfflineNoOpByFlag ==
    ~is_online =>
        /\ \A c \in Connects :
           \A failU \in Fails(c, local_users), failP \in Fails(c, local_pets) :
              LET o == SyncAllPending(Store, c, failU, failP)
              IN o.ret.users = 0 /\ o.ret.pets = 0 /\ NoOp(o)
        /\ \A u \in UserIds, ok \in BOOLEAN :
              LET o == PullFromRemote(Store, u, ok)
              IN o.ret.pets = 0 /\ NoOp(o)

\* C4 - Offline no-op: when the connectivity check sync_all_pending makes on
\* entry reports unavailable, and when the flag reports unavailable as
\* pull_from_remote is invoked, the call returns zero counts for every table,
\* writes nothing to the remote and leaves every local row unchanged.
C4_OfflineNoOp ==
    /\ \A c \in Connects :
       \A failU \in Fails(c, local_users), failP \in Fails(c, local_pets) :
          LET o == SyncAllPending(Store, c, failU, failP)
          IN ~CheckConnectionOp(Store, c).ret =>
                /\ o.ret.users = 0 /\ o.ret.pets = 0 /\ o.ret.status = "offline"
                /\ NoOp(o)
                /\ ~o.s.is_online
    /\ ~is_online =>
          \A u \in UserIds, ok \in BOOLEAN :
             LET o == PullFromRemote(Store, u, ok)
             IN o.ret.pets = 0 /\ o.ret.status = "offline" /\ NoOp(o) /\ ~o.s.is_online

\* the flag reports unavailable, an earlier connection object is kept, a local
\* row is pending and a remote row would land
WitnessC4 ==
    /\ ~is_online /\ remote_conn /\ configured
    /\ PendingIds(local_pets) # {}
    /\ \E u \in UserIds : Lands(local_pets, remote_pets, u) # {}
    /\ SyncAllPending(Store, "connect_failed", {}, {}).ret.pets = 0

\* C5 - Idempotence of push: with the remote reachable both times, a second push
\* of a record right after the first leaves the remote store as the first left
\* it, and the local record is 'synced' already after the first.
C5_PushIdempotent ==
    Online =>
        /\ \A l \in local_pets :
              LET o1 == SyncPetToRemote(Store, l.id, TRUE)
                  o2 == SyncPetToRemote(o1.s, l.id, TRUE)
              IN /\ o1.ret /\ o2.ret
                 /\ RowOf(o1.s.local_pets, l.id).sync_status = "synced"
                 /\ RowOf(o1.s.remote_pets, l.id) = [l EXCEPT !.sync_status = "synced"]
                 /\ o2.s.remote_pets = o1.s.remote_pets
                 /\ o2.s.remote_users = o1.s.remote_users
                 /\ o2.s.local_pets = o1.s.local_pets
        /\ \A l \in local_users :
              LET o1 == SyncUserToRemote(Store, l.id, TRUE)
                  o2 == SyncUserToRemote(o1.s, l.id, TRUE)
              IN /\ o1.ret /\ o2.ret
                 /\ RowOf(o1.s.local_users, l.id).sync_status = "synced"
                 /\ o2.s.remote_users = o1.s.remote_users
                 /\ o2.s.remote_pets = o1.s.remote_pets
                 /\ o2.s.local_users = o1.s.local_users

\* a pending pet whose push changes the remote store
WitnessC5 ==
    /\ Online
    /\ \E l \in local_pets :
          /\ l.sync_status = "pending"
          /\ HasRow(remote_pets, l.id)
          /\ SyncPetToRemote(Store, l.id, TRUE).s.remote_pets # remote_pets

\* the rows delete_pet and a push leave for a local pet l
DeleteThenPush(l) ==
    \A ok \in BOOLEAN :
        LET o == DeletePetOp(Store, l.id, ok)
            d == RowOf(o.s.local_pets, l.id)
            pushed == Online /\ ok
            p == SyncPetToRemote([o.s EXCEPT !.is_online = TRUE, !.remote_conn = TRUE],
                                 l.id, TRUE)
        IN /\ o.ret
           /\ d.is_deleted = 1
           /\ d.sync_status = (IF pushed THEN "synced" ELSE "pending")
           /\ pushed => RowOf(o.s.remote_pets, l.id).is_deleted = 1
           /\ p.ret
           /\ RowOf(p.s.remote_pets, l.id) = [d EXCEPT !.sync_status = "synced"]
           /\ RowOf(p.s.local_pets, l.id) = [d EXCEPT !.sync_status = "synced"]
           /\ GetPetById(o.s.local_pets, l.id) = NoRow
           /\ GetPetById(p.s.local_pets, l.id) = NoRow
           /\ d \notin GetPetsByUser(o.s.local_pets, l.user_id)

\* C6 as stated - Soft-delete propagates: delete_pet sets is_deleted = 1 and
\* sync_status 'pending'; a successful push writes the record to the remote with
\* is_deleted = 1 and marks it 'synced'; and in every state after the delete
\* get_pet_by_id returns not-found and get_pets_by_user does not list the record.
C6_SoftDeletePropagates ==
    /\ [](\A l \in local_pets : DeleteThenPush(l))
    /\ [][\A l \in local_pets :
             l.is_deleted = 1 =>
                /\ GetPetById(local_pets', l.id) = NoRow
                /\ \A r \in GetPetsByUser(local_pets', l.user_id) : r.id # l.id]_vars

\* C7 - a pet created while the flag reports unavailable is 'pending' and counted
\* as pending; a full_sync for its owner that finds the remote reachable then
\* returns is_online true, counts the pet as pushed and not as pulled, and leaves
\* it 'synced': with nothing else pending and no remote row to land the result
\* is pushed pets 1, pulled pets 0.
C7_CreateOfflineThenSync ==
    ~is_online =>
        \A id \in PetIds, u \in UserIds, n \in Names :
            FreshPetId(id) =>
                LET o1 == CreatePetOp(Store, id, u, n, TRUE)
                    o2 == FullSync(o1.s, u, "ok", {}, {}, TRUE)
                    before == GetSyncStatus(Store).pending_pets
                    landing == Lands(local_pets, remote_pets, u)
                IN /\ o1.ret = id
                   /\ RowOf(o1.s.local_pets, id).sync_status = "pending"
                   /\ GetSyncStatus(o1.s).pending_pets = before + 1
                   /\ o1.s.remote_pets = remote_pets
                   /\ configured =>
                         /\ o2.ret.is_online
                         /\ o2.ret.pushed.pets = before + 1
                         /\ o2.ret.pulled.pets =
                               Cardinality({r \in landing :
                                               r.id \notin PendingIds(local_pets)})
                         /\ RowOf(o2.s.local_pets, id) =
                               [RowOf(o1.s.local_pets, id) EXCEPT !.sync_status = "synced"]
                         /\ GetSyncStatus(o2.s).pending_pets = 0
                         /\ (before = 0 /\ landing = {}) =>
                               o2.ret.pushed.pets = 1 /\ o2.ret.pulled.pets = 0

\* offline with nothing pending and a synced row already shared with the remote:
\* creating a pet and syncing gives pushed pets 1, pulled pets 0
WitnessC7 ==
    /\ ~is_online /\ configured
    /\ PendingIds(local_pets) = {}
    /\ \E r \in remote_pets : r \in local_pets
    /\ \E id \in PetIds, n \in Names :
          /\ FreshPetId(id)
          /\ LET o2 == FullSync(CreatePetOp(Store, id, 1, n, TRUE).s, 1, "ok", {}, {}, TRUE)
             IN o2.ret.pushed.pets = 1 /\ o2.ret.pulled.pets = 0 /\ o2.ret.is_online

\* the remote rows of the current owner that are strictly newer than a local copy
\* which is not waiting to be pushed
NewerRemote ==
    {r \in remote_pets :
        /\ r.user_id = current_user
        /\ HasRow(local_pets, r.id)
        /\ RowOf(local_pets, r.id).sync_status = "synced"
        /\ T(RowOf(local_pets, r.id)) < T(r)}

\* C8 as stated - a scheduled attempt that fires during an active session and
\* finds the remote available runs full_sync for the current owner: it pushes
\* the pending rows and pulls, so a remote row strictly newer than its local
\* copy is landed locally by the attempt.
C8_ScheduledAttemptPulls ==
    [][(TimerFire /\ current_user # NoId /\ is_online') =>
          \A r \in NewerRemote :
             RowOf(local_pets', r.id) = [r EXCEPT !.sync_status = "synced"]]_vars

\* C9 - the scheduler re-arms regardless of outcome: every scheduled attempt,
\* whatever its connectivity check and pushes did, leaves exactly one next
\* attempt scheduled; an active session always has exactly one timer pending;
\* and either attempts fire infinitely often or the session is over.
C9_AlwaysRearmed ==
    /\ [][TimerFire =>
             /\ sync_timer_id' # NoId
             /\ sync_timer_id' # sync_timer_id
             /\ timers' = {sync_timer_id'}]_vars
    /\ [](view = "dashboard" => sync_timer_id # NoId /\ timers = {sync_timer_id})
    /\ \A i \in 1..2 : (sync_timer_id = i) ~> (sync_timer_id # i)
    /\ []<>(view # "dashboard") \/ []<><<TimerFire>>_vars

\* an attempt that found the remote unreachable with rows still pending has
\* scheduled the next attempt
WitnessC9 ==
    /\ view = "dashboard"
    /\ sync_timer_id = 2
    /\ timers = {2}
    /\ configured /\ ~is_online
    /\ PendingIds(local_pets) # {}

\* C10 - session end cancels the scheduler: outside an active session no timer
\* is pending and no scheduled attempt runs; a session becoming active leaves
\* exactly one timer pending, and its first attempt is part of that step, so a
\* reachable remote is connected and receives the pending rows before any timer
\* fires.
C10_SessionEndCancels ==
    /\ [](view # "dashboard" =>
             timers = {} /\ sync_timer_id = NoId /\ ~ENABLED TimerFire)
    /\ [][TimerFire => view = "dashboard" /\ view' = "dashboard"]_vars
    /\ [][(view = "dashboard" /\ view' # "dashboard") =>
             timers' = {} /\ sync_timer_id' = NoId]_vars
    /\ [][(view # "dashboard" /\ view' = "dashboard") =>
             sync_timer_id' # NoId /\ timers' = {sync_timer_id'}]_vars
    /\ []((/\ view = "login" /\ configured /\ ~is_online
           /\ GetUserByUsername(local_users, "ann") # NoRow) =>
             ENABLED (/\ Login /\ view' = "dashboard" /\ is_online'
                      /\ PendingIds(local_pets') = {}
                      /\ PendingIds(local_users') = {}))
    /\ []((/\ view = "closed" /\ configured
           /\ GetUserById(local_users, session_file) # NoRow) =>
             ENABLED (/\ Launch /\ view' = "dashboard" /\ is_online'
                      /\ PendingIds(local_pets') = {}
                      /\ PendingIds(local_users') = {}))

\* logged out after a session in which a pet was changed and left pending
WitnessC10 ==
    /\ view = "login"
    /\ current_user = NoId
    /\ timers = {}
    /\ PendingIds(local_pets) # {}
    /\ configured /\ ~is_online

\* C11 - sync attempts never overlap and timers never multiply: at most one
\* scheduled attempt is pending in any state, and it is the one whose id the
\* application holds; a timer is armed or cancelled only by a step that is a
\* whole scheduled attempt or a whole session change, so a manual sync or a
\* foreground mutation runs from start to end with the timer left pending, and
\* a scheduled attempt consumes the one pending timer and leaves one new timer.
C11_NoOverlapNoMultiply ==
    /\ [](Cardinality(timers) <= 1 /\ timers \subseteq {sync_timer_id})
    /\ [][(sync_timer_id' # sync_timer_id \/ timers' # timers) =>
             (TimerFire \/ Login \/ Launch \/ Logout \/ Close)]_vars
    /\ [][(sync_timer_id' # sync_timer_id /\ view' = view) =>
             /\ Cardinality(timers) = 1
             /\ Cardinality(timers') = 1
             /\ timers' # timers]_vars

\* a second session on the dashboard after a logout, its timer re-armed by a
\* scheduled attempt, with a pet added in the foreground and pushed
WitnessC11 ==
    /\ view = "dashboard"
    /\ sync_timer_id = 2
    /\ Cardinality(timers) = 1
    /\ is_online
    /\ \E l \in local_pets : l.sync_status = "synced" /\ l \in remote_pets
    /\ device_writes = 0

\* the step appended one journal entry, for this table and record
Journalled(table, id) ==
    /\ Len(sync_log') = Len(sync_log) + 1
    /\ SubSeq(sync_log', 1, Len(sync_log)) = sync_log
    /\ sync_log'[Len(sync_log')].table_name = table
    /\ sync_log'[Len(sync_log')].record_id = id
\* the remote store holds the local row after as the step ends, as a write of
\* it leaves it
PushedInStep(after) ==
    /\ HasRow(remote_pets', after.id)
    /\ RowOf(remote_pets', after.id) = [after EXCEPT !.sync_status = "synced"]
\* the step copied a strictly newer remote row over the local row before
PulledInStep(before, after) ==
    \E r \in remote_pets :
        /\ r.id = before.id
        /\ T(before) < T(r)
        /\ after = [r EXCEPT !.sync_status = "synced"]

\* C12 - sync_status transitions are restricted: a local record goes from
\* 'pending' to 'synced' only in a step in which it was written to the remote
\* store or a pull copied a newer remote row over it, and from 'synced' to
\* 'pending' only in a step that is a local mutation of that record (one journal
\* entry for it is appended); a new record is 'pending' unless it was pushed or
\* pulled in the step that made it; nothing else changes sync_status.
C12_StatusTransitions ==
    [][/\ \A l \in local_pets, m \in local_pets' :
             l.id = m.id =>
                /\ (l.sync_status = "pending" /\ m.sync_status = "synced") =>
                      PushedInStep(m) \/ PulledInStep(l, m)
                /\ (l.sync_status = "synced" /\ m.sync_status = "pending") =>
                      Journalled("pets", l.id)
                /\ m.sync_status \in {"pending", "synced"}
       /\ \A m \in local_pets' :
             (~HasRow(local_pets, m.id) /\ m.sync_status = "synced") =>
                m \in remote_pets'
       /\ \A l \in local_users, m \in local_users' :
             l.id = m.id =>
                /\ (l.sync_status = "pending" /\ m.sync_status = "synced") =>
                      m \in remote_users'
                /\ ~(l.sync_status = "synced" /\ m.sync_status = "pending")
       /\ Ids(local_pets) \subseteq Ids(local_pets')
       /\ Ids(local_users) \subseteq Ids(local_users')]_vars

\* a record that was 'synced' (the remote holds its earlier version) and was
\* soft-deleted while offline is 'pending', and a push of it while the remote
\* is reachable would make it 'synced'
WitnessC12 ==
    /\ ~is_online /\ configured
    /\ \E l \in local_pets :
          /\ l.sync_status = "pending" /\ l.is_deleted = 1
          /\ HasRow(remote_pets, l.id)
          /\ RowOf(remote_pets, l.id).is_deleted = 0
          /\ \E i \in DOMAIN sync_log :
                sync_log[i].record_id = l.id /\ sync_log[i].operation = "DELETE"
          /\ RowOf(SyncAllPending(Store, "ok", {}, {}).s.local_pets, l.id).sync_status
                = "synced"

\* C13 - a local record is 'pending' exactly while its current content has not
\* been confirmed on the remote since its last mutation: whenever a step leaves
\* a record new or changed, the record is 'synced' only if the remote store
\* holds that very content as the step ends (written to it or copied from it),
\* and 'pending' only if the step is a mutation of that record; a step that
\* mutates a record leaves it 'pending' unless its push wrote it; and in every
\* state a 'synced' record has a row on the remote and a 'pending' record has a
\* journal entry.
C13_PendingIffUnconfirmed ==
    /\ [][\A m \in local_pets' :
             /\ m \notin local_pets =>
                   /\ m.sync_status = "synced" => m \in remote_pets'
                   /\ m.sync_status = "pending" => Journalled("pets", m.id)
             /\ Journalled("pets", m.id) =>
                   m.sync_status = "pending" \/ m \in remote_pets']_vars
    /\ [][\A m \in local_users' :
             m \notin local_users =>
                /\ m.sync_status = "synced" => m \in remote_users'
                /\ m.sync_status = "pending" => Journalled("users", m.id)]_vars
    /\ [](\A l \in local_pets :
             /\ l.sync_status = "synced" => HasRow(remote_pets, l.id)
             /\ l.sync_status = "pending" =>
                   \E i \in DOMAIN sync_log :
                      sync_log[i].table_name = "pets" /\ sync_log[i].record_id = l.id)
    /\ [](\A l \in local_users :
             l.sync_status = "synced" => HasRow(remote_users, l.id))

\* a record made 'synced' by its push, whose remote row another device has
\* replaced since, next to a state of the journal that shows the mutation
WitnessC13 ==
    \E l \in local_pets :
        /\ l.sync_status = "synced"
        /\ HasRow(remote_pets, l.id)
        /\ RowOf(remote_pets, l.id).name # l.name
        /\ \E i \in DOMAIN sync_log :
              sync_log[i].record_id = l.id /\ sync_log[i].operation = "INSERT"

\* the store after a sync_all_pending whose check and writes all succeed
Retried(s) == SyncAllPending(s, "ok", {}, {}).s

\* C14 - a failed remote write: when the remote write of a pending row fails,
\* _sync_user_to_remote / _sync_pet_to_remote returns False without raising,
\* the row stays 'pending', no other field of it (and nothing else in either
\* store) changes, and the next sync_all_pending that reaches the remote
\* writes that row and marks it 'synced'.
C14_FailedWriteStaysPending ==
    Online =>
      /\ \A l \in local_pets : l.sync_status = "pending" =>
            LET o == SyncPetToRemote(Store, l.id, FALSE)
            IN /\ o.ret = FALSE
               /\ o.s = Store
               /\ l \in o.s.local_pets
               /\ l.id \in PendingIds(o.s.local_pets)
               /\ RowOf(Retried(o.s).local_pets, l.id) = [l EXCEPT !.sync_status = "synced"]
               /\ [l EXCEPT !.sync_status = "synced"] \in Retried(o.s).remote_pets
      /\ \A u \in local_users : u.sync_status = "pending" =>
            LET o == SyncUserToRemote(Store, u.id, FALSE)
            IN /\ o.ret = FALSE
               /\ o.s = Store
               /\ u \in o.s.local_users
               /\ u.id \in PendingIds(o.s.local_users)
               /\ RowOf(Retried(o.s).local_users, u.id) = [u EXCEPT !.sync_status = "synced"]
               /\ [u EXCEPT !.sync_status = "synced"] \in Retried(o.s).remote_users

\* the remote is reachable, a user and a pet are both waiting to be written and
\* the remote holds neither
WitnessC14 ==
    /\ Online
    /\ \E l \in local_pets :
          l.sync_status = "pending" /\ ~HasRow(remote_pets, l.id)
    /\ \E u \in local_users :
          u.sync_status = "pending" /\ ~HasRow(remote_users, u.id)

\* C15 - independent pushes: in a sync_all_pending that reaches the remote,
\* whichever of the pending rows' writes fail, every other pending row is
\* still written and marked 'synced', the rows whose write failed stay as they
\* were, rows and remote rows not involved are untouched, and the returned
\* counts are the numbers of rows whose write succeeded.
C15_IndependentPushes ==
    configured =>
      \A failU \in SUBSET PendingIds(local_users),
         failP \in SUBSET PendingIds(local_pets) :
         LET o == SyncAllPending(Store, "ok", failU, failP)
             okU == PendingIds(local_users) \ failU
             okP == PendingIds(local_pets) \ failP
         IN /\ o.ret.users = Cardinality(okU)
            /\ o.ret.pets = Cardinality(okP)
            /\ Ids(o.s.local_pets) = Ids(local_pets)
            /\ Ids(o.s.local_users) = Ids(local_users)
            /\ \A l \in local_pets :
                  IF l.id \in okP
                  THEN /\ RowOf(o.s.local_pets, l.id) = [l EXCEPT !.sync_status = "synced"]
                       /\ [l EXCEPT !.sync_status = "synced"] \in o.s.remote_pets
                  ELSE /\ l \in o.s.local_pets
                       /\ \A r \in remote_pets : r.id = l.id => r \in o.s.remote_pets
                       /\ HasRow(o.s.remote_pets, l.id) => HasRow(remote_pets, l.id)
            /\ \A u \in local_users :
                  IF u.id \in okU
                  THEN /\ RowOf(o.s.local_users, u.id) = [u EXCEPT !.sync_status = "synced"]
                       /\ [u EXCEPT !.sync_status = "synced"] \in o.s.remote_users
                  ELSE /\ u \in o.s.local_users
                       /\ \A r \in remote_users : r.id = u.id => r \in o.s.remote_users
                       /\ HasRow(o.s.remote_users, u.id) => HasRow(remote_users, u.id)

\* two pets and a user are waiting, so a failing write has other rows before
\* and after it in the loop
WitnessC15 ==
    /\ configured
    /\ Cardinality(PendingIds(local_pets)) = 2
    /\ PendingIds(local_users) # {}
    /\ remote_pets = {}

\* C16 - remote failures become results: a pull_from_remote whose remote fetch
\* fails returns a result with a pulled count of 0 and leaves every local row
\* (and everything else) as it was; full_sync, whatever fails on the remote
\* (the connectivity check, any write, the fetch), returns a result holding
\* the pushed counts, the pulled counts and is_online, and its failed fetch
\* changes no local row.
C16_RemoteFailuresAreResults ==
    /\ \A u \in UserIds :
          LET o == PullFromRemote(Store, u, FALSE)
          IN /\ DOMAIN o.ret = {"pets", "status"}
             /\ o.ret.pets = 0
             /\ o.s = Store
    /\ \A u \in UserIds, c \in Connects :
       \A failU \in Fails(c, local_users), failP \in Fails(c, local_pets),
          fetch_ok \in Fetches(c) :
          LET o == FullSync(Store, u, c, failU, failP, fetch_ok)
              push == SyncAllPending(Store, c, failU, failP)
          IN /\ DOMAIN o.ret = {"pushed", "pulled", "is_online"}
             /\ DOMAIN o.ret.pushed = {"users", "pets", "status"}
             /\ DOMAIN o.ret.pulled = {"pets", "status"}
             /\ o.ret.pushed.users \in Nat /\ o.ret.pushed.pets \in Nat
             /\ o.ret.pulled.pets \in Nat
             /\ o.ret.is_online = o.s.is_online
             /\ ~fetch_ok => /\ o.ret.pulled.pets = 0
                             /\ o.s.local_pets = push.s.local_pets
                             /\ o.s.local_users = push.s.local_users

\* the remote is reachable and holds a row a successful pull would land over an
\* older local copy
WitnessC16 ==
    /\ Online
    /\ \E r \in remote_pets :
          /\ HasRow(local_pets, r.id)
          /\ T(RowOf(local_pets, r.id)) < T(r)
          /\ r \in Lands(local_pets, remote_pets, r.user_id)

\* the journal of store t is the journal of the current store plus one entry
\* for the record, with the operation, not yet synced
Appended(t, table, id, operation) ==
    t.sync_log = Append(sync_log, [table_name |-> table, record_id |-> id,
                                   operation |-> operation, synced |-> 0])
\* the record's row in table is 'pending', or the mutation's own push wrote it
PendingOrPushed(table, remote, id) ==
    HasRow(table, id) =>
       \/ RowOf(table, id).sync_status = "pending"
       \/ RowOf(table, id) \in remote
\* what the claim asks of one mutation call with outcome o on a table
JournalConsistent(o, success, before, after, remote, table, id, operation) ==
    /\ success => /\ Appended(o.s, table, id, operation)
                  /\ PendingOrPushed(after, remote, id)
    /\ after # before => Appended(o.s, table, id, operation)
    /\ ~success => after = before /\ o.s.sync_log = sync_log

\* C17 as stated - every successful local mutation (create_user, create_pet,
\* update_pet, delete_pet) leaves the affected row 'pending' (or written by its
\* own immediate push) and appends exactly one journal entry for that table and
\* record id with the matching operation and synced = 0; a row write by a
\* mutation is never left without its journal entry; a mutation that reports
\* failure changes no row and appends no journal entry.
C17_MutationJournalled ==
    \A ok \in Writes, local \in LocalOutcomes :
       /\ \A id \in UserIds, name \in Usernames :
             FreshUserId(id) =>
                LET o == CreateUserTx(Store, id, name, ok, local)
                IN JournalConsistent(o, o.ret # NoId, local_users, o.s.local_users,
                                     o.s.remote_users, "users", id, "INSERT")
       /\ \A id \in PetIds, u \in UserIds, n \in Names :
             FreshPetId(id) =>
                LET o == CreatePetTx(Store, id, u, n, ok, local)
                IN JournalConsistent(o, o.ret # NoId, local_pets, o.s.local_pets,
                                     o.s.remote_pets, "pets", id, "INSERT")
       /\ \A id \in PetIds, keys \in KwKeySets, n \in Names :
             LET o == UpdatePetTx(Store, id, [k \in keys |-> KwValue(k, n)], ok, local)
             IN JournalConsistent(o, o.ret, local_pets, o.s.local_pets,
                                  o.s.remote_pets, "pets", id, "UPDATE")
       /\ \A id \in PetIds :
             LET o == DeletePetTx(Store, id, ok, local)
             IN JournalConsistent(o, o.ret, local_pets, o.s.local_pets,
                                  o.s.remote_pets, "pets", id, "DELETE")

\* what the claim asks of a mutation of record id that left store t, on a table
\* whose rows were before locally and rem remotely: with the flag up and the
\* write succeeding the record is 'synced' and the remote holds it, and no other
\* row of either side is touched; with the flag down the remote is as it was
\* and the record is 'pending'
ImmediatePush(id, before, after, rem, remAfter) ==
    /\ HasRow(after, id)
    /\ \A r \in before : r.id # id => r \in after
    /\ \A r \in rem : r.id # id => r \in remAfter
    /\ Ids(remAfter) \subseteq Ids(rem) \cup {id}
    /\ IF is_online
       THEN /\ RowOf(after, id).sync_status = "synced"
            /\ RowOf(after, id) \in remAfter
       ELSE /\ RowOf(after, id).sync_status = "pending"
            /\ remAfter = rem

\* C18 - immediate push of the mutated row: a create_user, create_pet,
\* update_pet or delete_pet made while the availability flag is up and whose
\* remote write succeeds returns with that record 'synced' and written to the
\* remote, having pushed that row alone; made while the flag is down it
\* attempts no remote write and returns with the record 'pending'.
C18_ImmediatePush ==
    /\ is_online => remote_conn
    /\ \A id \in UserIds, name \in Usernames :
          (FreshUserId(id) /\ \A r \in local_users : r.username # name) =>
             LET o == CreateUserOp(Store, id, name, TRUE)
             IN /\ ImmediatePush(id, local_users, o.s.local_users,
                                 remote_users, o.s.remote_users)
                /\ o.s.local_pets = local_pets /\ o.s.remote_pets = remote_pets
    /\ \A id \in PetIds, u \in UserIds, n \in Names :
          FreshPetId(id) =>
             LET o == CreatePetOp(Store, id, u, n, TRUE)
             IN /\ ImmediatePush(id, local_pets, o.s.local_pets,
                                 remote_pets, o.s.remote_pets)
                /\ o.s.local_users = local_users /\ o.s.remote_users = remote_users
    /\ \A l \in local_pets, n \in Names :
          LET o == UpdatePetOp(Store, l.id, [k \in {"name"} |-> n], TRUE)
          IN /\ ImmediatePush(l.id, local_pets, o.s.local_pets,
                              remote_pets, o.s.remote_pets)
             /\ o.s.local_users = local_users /\ o.s.remote_users = remote_users
    /\ \A l \in local_pets :
          LET o == DeletePetOp(Store, l.id, TRUE)
          IN /\ ImmediatePush(l.id, local_pets, o.s.local_pets,
                              remote_pets, o.s.remote_pets)
             /\ o.s.local_users = local_users /\ o.s.remote_users = remote_users

\* the flag is up, one pet is up to date on both sides and another is waiting:
\* a mutation of the first pushes it and leaves the second waiting
WitnessC18 ==
    /\ Online
    /\ \E l \in local_pets, w \in local_pets :
          /\ l.id # w.id
          /\ l.sync_status = "synced" /\ l \in remote_pets
          /\ w.sync_status = "pending" /\ ~HasRow(remote_pets, w.id)
          /\ w \in UpdatePetOp(Store, l.id, [k \in {"name"} |-> "Tom"], TRUE).s.local_pets

\* the step is an update_pet or delete_pet of record id: it appends the UPDATE or
\* DELETE journal entry of that record
MutatedInStep(id) ==
    /\ Journalled("pets", id)
    /\ sync_log'[Len(sync_log')].operation \in {"UPDATE", "DELETE"}

\* C19 as stated - updated_at is monotonic per record: every update_pet or
\* delete_pet leaves the row with an updated_at strictly greater than the value
\* it held before, whichever operation (creation, earlier mutation, pull)
\* installed that value, and in every reachable state updated_at >= created_at
\* for every local row.
C19_UpdatedAtMonotonic ==
    /\ [][\A l \in local_pets, m \in local_pets' :
             (l.id = m.id /\ MutatedInStep(l.id)) => T(l) < T(m)]_vars
    /\ [](\A l \in local_pets : ParseIso(l.created_at) <= T(l))
    /\ [](\A u \in local_users : ParseIso(u.created_at) <= T(u))

\* C20 as stated - soft-delete is terminal: once a local record has
\* is_deleted = 1, no later operation (update_pet, delete_pet, a push,
\* pull_from_remote, full_sync) leaves it with is_deleted = 0 again, and the
\* record is never removed.
C20_SoftDeleteTerminal ==
    [][\A l \in local_pets :
          l.is_deleted = 1 =>
             /\ HasRow(local_pets', l.id)
             /\ RowOf(local_pets', l.id).is_deleted = 1]_vars

\* no two rows of the table share an id
OneRowPerId(table) == \A a \in table, b \in table : a.id = b.id => a = b

\* C21 - in every reachable state each local table holds exactly one row per
\* id, and no operation (mutation, push, pull, full_sync) removes a record:
\* every id present in a local table before a step is present after it.
C21_OneRowPerIdNeverRemoved ==
    /\ [](OneRowPerId(local_pets) /\ OneRowPerId(local_users))
    /\ [][/\ Ids(local_pets) \subseteq Ids(local_pets')
          /\ Ids(local_users) \subseteq Ids(local_users')
          /\ Cardinality(local_pets') = Cardinality(Ids(local_pets'))
          /\ Cardinality(local_users') = Cardinality(Ids(local_users'))]_vars

\* a pet created here, pushed, rewritten by another device and landed by a pull
\* over the row the creation wrote; a soft-delete came with it
WitnessC21 ==
    \E l \in local_pets :
        /\ l.sync_status = "synced" /\ l \in remote_pets
        /\ l.updated_at # l.created_at
        /\ l.is_deleted = 1
        /\ \E i \in DOMAIN sync_log :
              sync_log[i].record_id = l.id /\ sync_log[i].operation = "INSERT"

\* every row of the table is waiting to be pushed
AllPending(table) == \A r \in table : r.sync_status = "pending"

\* C22 - local-only mode: with the remote URL or credential absent, is_online is
\* false in every reachable state and after every check_connection, there is no
\* remote connection and this replica never reads or writes the remote store
\* (push, pull and full_sync return their offline results and touch nothing),
\* every mutation still succeeds locally, and every local record is and stays
\* 'pending'.
C22_LocalOnlyMode ==
    /\ [](~configured =>
            /\ ~is_online /\ ~remote_conn
            /\ remote_users = {}
            /\ AllPending(local_users) /\ AllPending(local_pets)
            /\ \A c \in ConnectOutcomes :
                  LET o == CheckConnectionOp(Store, c)
                  IN ~o.ret /\ o.s = Store
            /\ \A u \in UserIds :
                  LET p == SyncAllPending(Store, "ok", {}, {})
                      q == PullFromRemote(Store, u, TRUE)
                      f == FullSync(Store, u, "ok", {}, {}, TRUE)
                  IN /\ p.s = Store /\ p.ret.status = "offline"
                     /\ q.s = Store /\ q.ret.status = "offline"
                     /\ f.s = Store /\ ~f.ret.is_online
            /\ \A id \in UserIds, name \in Usernames :
                  (FreshUserId(id) /\ \A r \in local_users : r.username # name) =>
                     LET o == CreateUserOp(Store, id, name, TRUE)
                     IN /\ o.ret = id
                        /\ AllPending(o.s.local_users) /\ HasRow(o.s.local_users, id)
                        /\ o.s.remote_users = remote_users
            /\ \A id \in PetIds, u \in UserIds, n \in Names :
                  FreshPetId(id) =>
                     LET o == CreatePetOp(Store, id, u, n, TRUE)
                     IN /\ o.ret = id
                        /\ AllPending(o.s.local_pets) /\ HasRow(o.s.local_pets, id)
                        /\ o.s.remote_pets = remote_pets
            /\ \A l \in local_pets, n \in Names :
                  LET o == UpdatePetOp(Store, l.id, [k \in {"name"} |-> n], TRUE)
                      d == DeletePetOp(Store, l.id, TRUE)
                  IN /\ o.ret /\ d.ret
                     /\ RowOf(o.s.local_pets, l.id).name = n
                     /\ RowOf(d.s.local_pets, l.id).is_deleted = 1
                     /\ AllPending(o.s.local_pets) /\ AllPending(d.s.local_pets)
                     /\ o.s.remote_pets = remote_pets /\ d.s.remote_pets = remote_pets)
    /\ [][(~configured /\ device_writes' = device_writes) =>
             /\ remote_pets' = remote_pets
             /\ remote_users' = remote_users]_vars

\* local-only mode with a user and a pet created, and a row of another device on
\* the remote that is never landed
WitnessC22 ==
    /\ ~configured
    /\ local_users # {}
    /\ \E l \in local_pets : ~HasRow(remote_pets, l.id)
    /\ \E r \in remote_pets : ~HasRow(local_pets, r.id)

\* C23 - check_connection always returns a value: it returns true and leaves
\* is_online true exactly when the remote is configured and the connection
\* attempt succeeds, and otherwise returns false and leaves is_online false,
\* whatever the flag was before; it changes no row and no journal entry.
C23_CheckConnectionSetsFlag ==
    \A c \in ConnectOutcomes :
       LET o == CheckConnectionOp(Store, c)
       IN /\ o.ret \in BOOLEAN
          /\ o.ret = (configured /\ c = "ok")
          /\ o.s.is_online = o.ret
          /\ o.ret => o.s.remote_conn
          /\ [o.s EXCEPT !.is_online = is_online, !.remote_conn = remote_conn] = Store

\* the flag is down after a failed attempt that left the connection object, with
\* rows waiting: the next successful check raises the flag again
WitnessC23 ==
    /\ configured /\ ~is_online /\ remote_conn
    /\ PendingIds(local_users) # {}
    /\ CheckConnectionOp(Store, "ok").s.is_online
    /\ ~CheckConnectionOp(CheckConnectionOp(Store, "ok").s, "connect_failed").s.is_online

\* C24 - the sync status snapshot is exact: get_sync_status returns is_online
\* equal to the flag, pending_users and pending_pets equal to the number of
\* local records (soft-deleted ones included) that are 'pending' in each table,
\* total_pending equal to their sum, and total_pending is 0 exactly when every
\* local row is 'synced'.
C24_StatusSnapshotExact ==
    LET st == GetSyncStatus(Store)
    IN /\ DOMAIN st = {"is_online", "pending_users", "pending_pets", "total_pending"}
       /\ st.is_online = is_online
       /\ st.pending_users = Cardinality(PendingIds(local_users))
       /\ st.pending_pets = Cardinality(PendingIds(local_pets))
       /\ st.pending_pets >= Cardinality({id \in PetIds :
              HasRow(local_pets, id) /\ RowOf(local_pets, id).is_deleted = 1
                 /\ RowOf(local_pets, id).sync_status = "pending"})
       /\ st.total_pending = st.pending_users + st.pending_pets
       /\ (st.total_pending = 0) <=>
             \A r \in local_users \cup local_pets : r.sync_status = "synced"

\* a soft-deleted pet whose delete is not pushed yet and a pending user: the
\* snapshot counts the deleted row
WitnessC24 ==
    /\ \E l \in local_pets : l.is_deleted = 1 /\ l.sync_status = "pending"
    /\ PendingIds(local_users) # {}
    /\ is_online
    /\ GetSyncStatus(Store).total_pending = 2

Malformed(data) ==
    \/ "name" \notin DOMAIN data
    \/ data["name"] = ""
    \/ "age" \in DOMAIN data /\ data["age"] < 0

C27_CreateUserUniqueName ==
    /\ \A a \in local_users, b \in local_users : a.username = b.username => a = b
    /\ \A id \in AccountIds, name \in AccountNames, ok \in Writes :
          FreshUserId(id) =>
             LET o == CreateUserOp(Store, id, name, ok)
             IN IF \E r \in local_users : r.username = name
                THEN /\ o.ret = NoId
                     /\ o.s = Store
                ELSE /\ o.ret = id
                     /\ HasRow(o.s.local_users, id)
                     /\ RowOf(o.s.local_users, id).username = name
                     /\ local_users \subseteq o.s.local_users

\* one account exists locally under a name, and an id is still free for a second
\* create_user with that name
WitnessC27 ==
    /\ \E r \in local_users : r.username = "ann" /\ r.sync_status = "synced"
    /\ \E id \in AccountIds : FreshUserId(id)
    /\ Cardinality(local_users) = 1
    /\ remote_users = local_users

\* every local row is 'synced' and the remote holds it with the same content
SyncedAndHeld ==
    /\ \A l \in local_pets : l.sync_status = "synced" /\ l \in remote_pets
    /\ \A u \in local_users : u.sync_status = "synced" /\ u \in remote_users

OtherRows(table, id) == {r \in table : r.id # id}

\* C29 - pushing a record changes only the remote row with that record's id: for
\* every push of a user or pet row, every remote row with a different id is
\* still there, unaltered, after the push - also when the pushed user's username
\* is the username of a remote user row with another id.
C29_PushTouchesOnlyItsRow ==
    /\ \A u \in local_users :
          LET o == SyncUserToRemote(Store, u.id, TRUE)
          IN OtherRows(o.s.remote_users, u.id) = OtherRows(remote_users, u.id)
    /\ \A l \in local_pets :
          LET o == SyncPetToRemote(Store, l.id, TRUE)
          IN OtherRows(o.s.remote_pets, l.id) = OtherRows(remote_pets, l.id)

\* C30 - a successful push of a record changes exactly one thing locally, that
\* record's sync_status, which becomes 'synced': its other columns, every other
\* local row of both tables and the journal are as before; and the remote row
\* written carries the local content with sync_status 'synced' whatever the
\* local value was.
C30_PushMarksOnlyStatus ==
    /\ \A l \in local_pets :
          LET o == SyncPetToRemote(Store, l.id, TRUE)
              marked == [l EXCEPT !.sync_status = "synced"]
          IN o.ret =>
                /\ o.s.local_pets = (local_pets \ {l}) \cup {marked}
                /\ o.s.local_users = local_users
                /\ o.s.sync_log = sync_log
                /\ marked \in o.s.remote_pets
                /\ \A r \in o.s.remote_pets : r.id = l.id => r = marked
    /\ \A u \in local_users :
          LET o == SyncUserToRemote(Store, u.id, TRUE)
              marked == [u EXCEPT !.sync_status = "synced"]
          IN o.ret =>
                /\ o.s.local_users = (local_users \ {u}) \cup {marked}
                /\ o.s.local_pets = local_pets
                /\ o.s.sync_log = sync_log
                /\ marked \in o.s.remote_users
                /\ \A r \in o.s.remote_users : r.id = u.id => r = marked

\* the store is online with a user and a 'pending' pet whose remote row holds an
\* earlier content; a push of the pet succeeds
WitnessC30 ==
    /\ is_online /\ remote_conn /\ local_users # {} /\ sync_log # <<>>
    /\ \E l \in local_pets :
          /\ l.sync_status = "pending"
          /\ HasRow(remote_pets, l.id) /\ [l EXCEPT !.sync_status = "synced"] \notin remote_pets
          /\ SyncPetToRemote(Store, l.id, TRUE).ret

\* C31 - the availability flag is changed only by a connectivity check: a push
\* or a pull whose remote write or fetch fails, and every local mutation with
\* its immediate push, leaves is_online as it was, so the flag keeps reporting
\* available after a failed remote call; and within one full_sync the push
\* phase and the pull phase both see the value the check at its start has set,
\* which is the value the store holds when full_sync returns.
C31_FlagSetOnlyByCheck ==
    /\ \A id \in PetIds, ok \in BOOLEAN :
          /\ SyncPetToRemote(Store, id, ok).s.is_online = is_online
          /\ DeletePetOp(Store, id, ok).s.is_online = is_online
          /\ \A keys \in KwKeySets :
                UpdatePetOp(Store, id, [k \in keys |-> KwValue(k, "Rex")], ok).s.is_online
                   = is_online
          /\ \A u \in UserIds :
                CreatePetOp(Store, id, u, "Rex", ok).s.is_online = is_online
    /\ \A u \in UserIds, ok \in BOOLEAN :
          /\ SyncUserToRemote(Store, u, ok).s.is_online = is_online
          /\ PullFromRemote(Store, u, ok).s.is_online = is_online
          /\ CreateUserOp(Store, u, "ann", ok).s.is_online = is_online
    /\ \A u \in UserIds, c \in ConnectOutcomes :
       \A failU \in SUBSET PendingIds(local_users), failP \in SUBSET PendingIds(local_pets),
          fetch_ok \in BOOLEAN :
          LET chk == CheckConnectionOp(Store, c)
              push == SyncAllPending(Store, c, failU, failP)
              full == FullSync(Store, u, c, failU, failP, fetch_ok)
          IN /\ push.s.is_online = chk.ret
             /\ full.s.is_online = chk.ret
             /\ (push.ret.status = "online") = chk.ret
             /\ (full.ret.pulled.status = "online") = chk.ret
             /\ full.ret.is_online = chk.ret

\* the flag reports available, a pet is waiting, and a push of it whose remote
\* write fails returns with the flag still reporting available
WitnessC31 ==
    /\ is_online /\ remote_conn
    /\ \E l \in local_pets :
          /\ l.sync_status = "pending" /\ ~HasRow(remote_pets, l.id)
          /\ ~SyncPetToRemote(Store, l.id, FALSE).ok
          /\ SyncPetToRemote(Store, l.id, FALSE).s.is_online

\* the journal of s is the journal of the current state with one entry added
LoggedOnce(s, table, id, operation) ==
    /\ Len(s.sync_log) = Len(sync_log) + 1
    /\ SubSeq(s.sync_log, 1, Len(sync_log)) = sync_log
    /\ LET e == s.sync_log[Len(s.sync_log)]
       IN e.table_name = table /\ e.record_id = id /\ e.operation = operation

\* C32 - a local mutation succeeds whatever the push does: when the flag reports
\* available and the immediate remote write fails, create_pet and create_user
\* return the new id, update_pet and delete_pet return True, the local row holds
\* the mutated content with sync_status 'pending', the journal entry is kept,
\* and the remote store is as before.
C32_MutationSurvivesFailedPush ==
    (is_online /\ remote_conn) =>
    /\ \A id \in PetIds, u \in UserIds, n \in Names :
          ~HasRow(local_pets, id) =>
             LET o == CreatePetOp(Store, id, u, n, FALSE)
             IN /\ o.ret = id /\ ~o.ok
                /\ \E l \in o.s.local_pets :
                      /\ l.id = id /\ l.user_id = u /\ l.name = n
                      /\ l.sync_status = "pending" /\ l.is_deleted = 0
                /\ LoggedOnce(o.s, "pets", id, "INSERT")
                /\ o.s.remote_pets = remote_pets
    /\ \A l \in local_pets, n \in Names :
          LET o == UpdatePetOp(Store, l.id, [k \in {"name"} |-> n], FALSE)
          IN /\ o.ret = TRUE /\ ~o.ok
             /\ o.s.local_pets = (local_pets \ {l}) \cup
                   {[l EXCEPT !.name = n, !.updated_at = GetTimestamp,
                              !.sync_status = "pending"]}
             /\ LoggedOnce(o.s, "pets", l.id, "UPDATE")
             /\ o.s.remote_pets = remote_pets
    /\ \A l \in local_pets :
          LET o == DeletePetOp(Store, l.id, FALSE)
          IN /\ o.ret = TRUE /\ ~o.ok
             /\ o.s.local_pets = (local_pets \ {l}) \cup
                   {[l EXCEPT !.is_deleted = 1, !.updated_at = GetTimestamp,
                              !.sync_status = "pending"]}
             /\ LoggedOnce(o.s, "pets", l.id, "DELETE")
             /\ o.s.remote_pets = remote_pets
    /\ \A id \in UserIds, name \in Usernames :
          (\A r \in local_users : r.id # id /\ r.username # name) =>
             LET o == CreateUserOp(Store, id, name, FALSE)
             IN /\ o.ret = id /\ ~o.ok
                /\ \E r \in o.s.local_users :
                      r.id = id /\ r.username = name /\ r.sync_status = "pending"
                /\ LoggedOnce(o.s, "users", id, "INSERT")
                /\ o.s.remote_users = remote_users

\* the flag reports available and a pet that the remote holds undeleted is
\* soft-deleted locally and still 'pending', its DELETE entry last in the journal
WitnessC32 ==
    /\ is_online /\ remote_conn /\ sync_log # <<>>
    /\ \E l \in local_pets :
          /\ l.sync_status = "pending" /\ l.is_deleted = 1
          /\ \E r \in remote_pets : r.id = l.id /\ r.is_deleted = 0
          /\ sync_log[Len(sync_log)].operation = "DELETE"
          /\ sync_log[Len(sync_log)].record_id = l.id

\* the local table a journal entry names
TableOf(e) == IF e.table_name = "users" THEN local_users ELSE local_pets

\* C33 - every journal entry refers to a record that exists: for each entry a
\* row with id = record_id is in the named local table; and update_pet or
\* delete_pet called with an id that matches no row appends no entry.
C33_JournalRefersToRows ==
    /\ \A i \in 1..Len(sync_log) : HasRow(TableOf(sync_log[i]), sync_log[i].record_id)
    /\ \A id \in PetIds, ok \in BOOLEAN :
          ~HasRow(local_pets, id) =>
             /\ DeletePetOp(Store, id, ok).s.sync_log = sync_log
             /\ UpdatePetOp(Store, id, [k \in {"name"} |-> "Rex"], ok).s.sync_log = sync_log

\* C34 - the journal is append-only and independent of sync: every step keeps the
\* entries it had, in place and unmodified; push, pull, sync_all_pending and
\* full_sync return with the journal exactly as it was, whatever their outcome;
\* and every entry's synced flag is 0 in every state, also when the record it
\* names has been pushed and is 'synced'.
C34_JournalAppendOnly ==
    /\ [](/\ \A i \in 1..Len(sync_log) : sync_log[i].synced = 0
          /\ \A id \in PetIds, ok \in BOOLEAN :
                SyncPetToRemote(Store, id, ok).s.sync_log = sync_log
          /\ \A u \in UserIds, ok \in BOOLEAN :
                /\ SyncUserToRemote(Store, u, ok).s.sync_log = sync_log
                /\ PullFromRemote(Store, u, ok).s.sync_log = sync_log
          /\ \A u \in UserIds, c \in ConnectOutcomes :
             \A failU \in SUBSET PendingIds(local_users),
                failP \in SUBSET PendingIds(local_pets), fetch_ok \in BOOLEAN :
                /\ SyncAllPending(Store, c, failU, failP).s.sync_log = sync_log
                /\ FullSync(Store, u, c, failU, failP, fetch_ok).s.sync_log = sync_log)
    /\ [][/\ Len(sync_log') >= Len(sync_log)
          /\ SubSeq(sync_log', 1, Len(sync_log)) = sync_log]_vars

\* a pet has been pushed: it is 'synced' and the remote holds it, while its
\* journal entry still carries synced = 0
WitnessC34 ==
    \E l \in local_pets :
       /\ l.sync_status = "synced" /\ l \in remote_pets
       /\ \E i \in 1..Len(sync_log) :
             /\ sync_log[i].table_name = "pets" /\ sync_log[i].record_id = l.id
             /\ sync_log[i].synced = 0

\* the ids of the remote pet rows of an owner
RemoteIdsOf(owner) == {p.id : p \in {x \in remote_pets : x.user_id = owner}}

\* C35 - pull_from_remote(owner) touches only that owner's pets: whatever its
\* outcome it leaves the local users table, the journal, the flag and the whole
\* remote store as they were, keeps every local pet row whose id is not the id
\* of a remote pet row with user_id = owner, and adds no row with another id.
C35_PullTouchesOnlyOwner ==
    \A owner \in AccountIds, ok \in BOOLEAN :
       LET o == PullFromRemote(Store, owner, ok)
       IN /\ o.s.local_users = local_users
          /\ o.s.sync_log = sync_log
          /\ o.s.remote_pets = remote_pets /\ o.s.remote_users = remote_users
          /\ o.s.is_online = is_online /\ o.s.remote_conn = remote_conn
          /\ \A l \in local_pets : l.id \notin RemoteIdsOf(owner) => l \in o.s.local_pets
          /\ \A l \in o.s.local_pets : l.id \notin RemoteIdsOf(owner) => l \in local_pets

\* the store is online and has pulled one owner's pet, while the remote also
\* holds a pet of another owner that the local store does not have
WitnessC35 ==
    /\ is_online /\ remote_conn
    /\ \E p, q \in remote_pets :
          /\ p.user_id # q.user_id
          /\ q \in local_pets
          /\ ~HasRow(local_pets, p.id)
          /\ PullFromRemote(Store, q.user_id, TRUE).s.local_pets = local_pets
          /\ PullFromRemote(Store, p.user_id, TRUE).s.local_pets # local_pets

\* keyword sets without an allowed field, and sets that mix both kinds
ProtectedKeySets == {{}, {"is_deleted"}, {"id", "user_id"}, {"created_at", "colour"}}
MixedKeySets == {{"name", "is_deleted"}, {"notes", "user_id", "created_at"},
                 AllowedFields \cup {"id", "colour"}}
\* a value for each keyword that differs from what the rows of the model hold
OtherValue(k) ==
    IF k \in {"name", "breed", "notes", "colour"} THEN "Zed"
    ELSE IF k = "species" THEN "dog"
    ELSE IF k = "created_at" THEN IsoFormat(MaxClock + 1)
    ELSE IF k \in {"age", "weight"} THEN 7
    ELSE IF k = "is_deleted" THEN 1
    ELSE MaxPets + 1

\* C36 - update_pet called with no allowed field (no keys, or only unknown or
\* protected keys) returns False and changes nothing: no row, no journal entry,
\* no push; called with allowed and other keys mixed it writes the allowed
\* fields it was given and leaves id, user_id, created_at, is_deleted and the
\* allowed fields it was not given as they were.
C36_UpdateOnlyAllowedFields ==
    \A id \in PetIds, ok \in BOOLEAN :
       /\ \A keys \in ProtectedKeySets :
             LET o == UpdatePetOp(Store, id, [k \in keys |-> OtherValue(k)], ok)
             IN o.ret = FALSE /\ o.ok /\ o.s = Store
       /\ \A keys \in MixedKeySets :
             LET o == UpdatePetOp(Store, id, [k \in keys |-> OtherValue(k)], ok)
             IN /\ o.ret = TRUE
                /\ Ids(o.s.local_pets) = Ids(local_pets)
                /\ \A l \in local_pets :
                      LET n == RowOf(o.s.local_pets, l.id)
                      IN /\ n.user_id = l.user_id /\ n.created_at = l.created_at
                         /\ n.is_deleted = l.is_deleted
                         /\ l.id # id => n = l
                         /\ l.id = id =>
                               \A f \in AllowedFields :
                                  n[f] = IF f \in keys THEN OtherValue(f) ELSE l[f]

\* a live pet has been updated, and an update of it that names only is_deleted
\* is refused while one that adds a name goes through
WitnessC36 ==
    \E l \in local_pets :
       /\ l.is_deleted = 0
       /\ \E i \in 1..Len(sync_log) :
             sync_log[i].operation = "UPDATE" /\ sync_log[i].record_id = l.id
       /\ ~UpdatePetOp(Store, l.id, [k \in {"is_deleted"} |-> 1], TRUE).ret
       /\ UpdatePetOp(Store, l.id, [k \in {"name", "is_deleted"} |-> OtherValue(k)], TRUE).ret
====
